---- MODULE Spec2Model ----
(***************************************************************************)
(* FSS operator core: the FSS client (fabric object engine, durable        *)
(* mirror, resync) and the VLAN-provider facade that drives it.            *)
(*                                                                         *)
(* The engine operations are operators over a context record               *)
(*   c = [db, srv, used, log, outs, deploymentID]                          *)
(* db   : the in-memory mirror (FssClient.database)                        *)
(* srv  : the objects held by the FSS server, by REST collection           *)
(* used : the ids in use, none of which the server assigns again           *)
(* log  : the REST calls issued by the operation in progress               *)
(* outs : the outcomes of the REST calls the operation is going to make    *)
(* Every action of the state machine runs one whole operation.             *)
(***************************************************************************)
EXTENDS Integers, Sequences, FiniteSets, TLC

\* ------------------------------------------------------------------ bounds
\* The server assigns an id that nothing refers to any more. Objects with
\* the same natural key draw their ids from a family of MaxGen ids, and an
\* operation that needs one more id of a family than it has is not
\* started.
MaxGen == 2
\* At most MaxFail REST calls of a behaviour fail (the server returns an
\* unexpected status, or the transport returns an error).
MaxFail == 1
\* At most MaxCrash times in a behaviour the process is killed.
MaxCrash == 1
\* A behaviour of the facade takes at most MaxSteps steps, one of the
\* engine at most MaxEngineSteps.
MaxSteps == 4
MaxEngineSteps == 6
\* One of the host-port operations takes at most MaxPortSteps steps.
MaxPortSteps == 7
MaxRangeSteps == 3
\* the steps of a behaviour of the start-up
MaxBootSteps == 9
\* the steps of a behaviour of Attach and Detach on two nodes
MaxNodesSteps == 3
\* REST call positions of one operation at which a failure may be injected.
MaxCalls == 4
\* the length of the strings GetVlanIds is called on
MaxTrunkLen == 4
\* the overlays of a NAD
MaxOverlays == 2
\* the calls of the agent of a node
MaxVlanCalls == 4
\* the steps of a behaviour of every operation
MaxFrameSteps == 3
\* the clock of the REST transport and its requests
MaxNow == 5
MaxRequests == 2

\* ------------------------------------------------------------ Go map idiom
NoId == 0

EmptyMap == [x \in {} |-> 0]

Has(m, k) == k \in DOMAIN m

Put(m, k, v) == [x \in (DOMAIN m) \cup {k} |-> IF x = k THEN v ELSE m[x]]

Del(m, k) == [x \in (DOMAIN m) \ {k} |-> m[x]]

\* m[k] for a map of maps: a missing key reads as the nil map
GetMap(m, k) == IF k \in DOMAIN m THEN m[k] ELSE EmptyMap

\* m[k] for a map of ids: a missing key reads as ""
GetId(m, k) == IF k \in DOMAIN m THEN m[k] ELSE NoId

Values(m) == {m[k] : k \in DOMAIN m}

\* ------------------------------------------------------- strings as chars
StrValue == <<"v", "a", "l", "u", "e">>

StrUntagged == <<"u", "n", "t", "a", "g", "g", "e", "d">>

Digit(d) == <<"0", "1", "2", "3", "4", "5", "6", "7", "8", "9">>[d + 1]

RECURSIVE Itoa(_)
Itoa(n) == IF n < 10 THEN <<Digit(n)>> ELSE Itoa(n \div 10) \o <<Digit(n % 10)>>

RECURSIVE Split(_, _)
Split(s, sep) ==
    IF \A i \in 1..Len(s) : s[i] # sep
    THEN <<s>>
    ELSE LET i == CHOOSE x \in 1..Len(s) : s[x] = sep /\ \A j \in 1..(x - 1) : s[j] # sep
         IN  <<SubSeq(s, 1, i - 1)>> \o Split(SubSeq(s, i + 1, Len(s)), sep)

\* Vlan{vlanType, vlanValue} of a vlanID
MkVlan(vlanID) ==
    IF vlanID = 0
    THEN [vlanType |-> StrUntagged, vlanValue |-> <<>>]
    ELSE [vlanType |-> StrValue, vlanValue |-> Itoa(vlanID)]

\* --------------------------------------------------------------- database
EmptyDatabase ==
    [tenants |-> EmptyMap, subnets |-> EmptyMap,
     hostPortLabels |-> EmptyMap, attachedLabels |-> EmptyMap,
     hostPorts |-> EmptyMap, attachedPorts |-> EmptyMap,
     workloadMapping |-> EmptyMap, subnetMapping |-> EmptyMap]

EncodeVlanKey(mk) == mk.vlanType \o <<"-">> \o mk.vlanValue

DecodeVlanKey(mk) == [vlanType |-> Split(mk, "-")[1], vlanValue |-> Split(mk, "-")[2]]

EncodeLabels(m) ==
    [k \in DOMAIN m |->
        [ek \in {EncodeVlanKey(mk) : mk \in DOMAIN m[k]} |->
            m[k][CHOOSE mk \in DOMAIN m[k] : EncodeVlanKey(mk) = ek]]]

DecodeLabels(m) ==
    [k \in DOMAIN m |->
        [vlan \in {DecodeVlanKey(mk) : mk \in DOMAIN m[k]} |->
            m[k][CHOOSE mk \in DOMAIN m[k] : DecodeVlanKey(mk) = vlan]]]

encode(d) ==
    [Tenants |-> d.tenants, Subnets |-> d.subnets,
     HostPortLabels |-> EncodeLabels(d.hostPortLabels),
     AttachedLabels |-> EncodeLabels(d.attachedLabels),
     HostPorts |-> d.hostPorts, AttachedPorts |-> d.attachedPorts,
     WorkloadMapping |-> d.workloadMapping, SubnetMapping |-> d.subnetMapping]

decode(e) ==
    [tenants |-> e.Tenants, subnets |-> e.Subnets,
     hostPortLabels |-> DecodeLabels(e.HostPortLabels),
     attachedLabels |-> DecodeLabels(e.AttachedLabels),
     hostPorts |-> e.HostPorts, attachedPorts |-> e.AttachedPorts,
     workloadMapping |-> e.WorkloadMapping, subnetMapping |-> e.SubnetMapping]

\* ------------------------------------------------------------- FSS server
EmptyServer ==
    [plugins |-> {}, deployments |-> {}, tenants |-> {}, subnets |-> {},
     hostportlabels |-> {}, hostports |-> {},
     hostportlabelhostportassociations |-> {}, hostportlabelsubnetassociations |-> {}]

Outcome(c) == IF c.outs = <<>> THEN "ok" ELSE Head(c.outs)

RestOuts(c) == IF c.outs = <<>> THEN <<>> ELSE Tail(c.outs)

LogEntry(method, path, id, status) ==
    [method |-> method, path |-> path, id |-> id, status |-> status]

\* the ids the server assigns to a new object
Assigned(path, body, id) ==
    IF path = "tenants" THEN [body EXCEPT !.id = id, !.fssWorkloadEvpnId = id]
    ELSE IF path = "subnets" THEN [body EXCEPT !.id = id, !.fssSubnetId = id]
    ELSE [body EXCEPT !.id = id]

\* the names the objects of the fabric are made from
WorkloadSeq == <<"projA">>

SubnetSeq == <<"subX", "subY">>

NodeSeq == <<"n1">>

\* the nodes next to the first
MoreNodeSeq == <<"n2">>

PortSeq == <<"eth0", "eth1", "tenant-bond">>

Index(seq, x) == CHOOSE i \in 1..Len(seq) : seq[i] = x

\* the families of ids, one per natural key: a tenant by its name, a subnet
\* by its name, a host port by its node and port, a label by the subnet it
\* names, an association by the objects it joins (an object that refers to
\* one the server does not hold falls in the last family of its kind)
SubnetFamily(srv, sid) ==
    IF \E o \in srv.subnets : o.id = sid
    THEN Index(SubnetSeq, (CHOOSE o \in srv.subnets : o.id = sid).fssSubnetName)
    ELSE Len(SubnetSeq) + 1

LabelFamily(srv, label) ==
    IF \E o \in srv.hostportlabels : o.id = label
    THEN SubnetFamily(srv, (CHOOSE o \in srv.hostportlabels : o.id = label).name[2])
    ELSE Len(SubnetSeq) + 1

HostPortFamily(srv, hostPortID) ==
    IF \E o \in srv.hostports : o.id = hostPortID
    THEN LET o == CHOOSE o \in srv.hostports : o.id = hostPortID
         IN  (Index(NodeSeq, o.hostName) - 1) * Len(PortSeq) + Index(PortSeq, o.portName)
    ELSE Len(NodeSeq) * Len(PortSeq) + 1

\* whether a host port is one of a node of MoreNodeSeq, and its place among
\* the ports of these nodes
MoreHostPort(srv, hostPortID) ==
    \E o \in srv.hostports : o.id = hostPortID /\ \E i \in 1..Len(MoreNodeSeq) : MoreNodeSeq[i] = o.hostName

MorePlace(hostName, portName) ==
    (Index(MoreNodeSeq, hostName) - 1) * Len(PortSeq) + Index(PortSeq, portName)

MoreHostPortPlace(srv, hostPortID) ==
    LET o == CHOOSE o \in srv.hostports : o.id = hostPortID
    IN  MorePlace(o.hostName, o.portName)

Family(srv, path, body) ==
    LET nS == Len(SubnetSeq) + 1
        nP == Len(NodeSeq) * Len(PortSeq) + 1
        nM == Len(MoreNodeSeq) * Len(PortSeq)
        top == Len(WorkloadSeq) + Len(SubnetSeq) + nS + nP + nS + nS * nP + 2
    IN  IF path = "hostports" /\ \E i \in 1..Len(MoreNodeSeq) : MoreNodeSeq[i] = body.hostName
        THEN top + MorePlace(body.hostName, body.portName)
        ELSE IF path = "hostportlabelhostportassociations" /\ MoreHostPort(srv, body.hostPortId)
        THEN top + nM + (LabelFamily(srv, body.hostPortLabelId) - 1) * nM
             + MoreHostPortPlace(srv, body.hostPortId)
        ELSE IF path = "tenants" THEN Index(WorkloadSeq, body.fssWorkloadEvpnName)
        ELSE IF path = "subnets"
        THEN Len(WorkloadSeq) + Index(SubnetSeq, body.fssSubnetName)
        ELSE IF path = "hostportlabels"
        THEN Len(WorkloadSeq) + Len(SubnetSeq) + SubnetFamily(srv, body.name[2])
        ELSE IF path = "hostports"
        THEN Len(WorkloadSeq) + Len(SubnetSeq) + nS
             + (Index(NodeSeq, body.hostName) - 1) * Len(PortSeq)
             + Index(PortSeq, body.portName)
        ELSE IF path = "hostportlabelsubnetassociations"
        THEN Len(WorkloadSeq) + Len(SubnetSeq) + nS + nP
             + LabelFamily(srv, body.hostPortLabelId)
        ELSE IF path = "plugins"
        THEN Len(WorkloadSeq) + Len(SubnetSeq) + nS + nP + nS + nS * nP + 1
        ELSE IF path = "deployments"
        THEN Len(WorkloadSeq) + Len(SubnetSeq) + nS + nP + nS + nS * nP + 2
        ELSE Len(WorkloadSeq) + Len(SubnetSeq) + nS + nP + nS
             + (LabelFamily(srv, body.hostPortLabelId) - 1) * nP
             + HostPortFamily(srv, body.hostPortId)

\* what FreshId answers when the family has no id left
Overflow == NoId - 1

\* the first of ids that is not in use
FirstFree(used, ids) ==
    IF ids \subseteq used THEN Overflow
    ELSE CHOOSE id \in ids : id \notin used /\ \A x \in ids : x < id => x \in used

\* the first id of the object's family that is not in use
FreshId(c, path, body) ==
    FirstFree(c.used, {(Family(c.srv, path, body) - 1) * MaxGen + g : g \in 1..MaxGen})

\* the server's answer to the POST of body when it creates obj for it
Created(c, path, body, obj, out) ==
    IF out = "ok"
    THEN [c |-> [c EXCEPT !.srv[path] = @ \cup {obj},
                          !.used = @ \cup {obj.id},
                          !.log = Append(@, LogEntry("POST", path, obj.id, 201)),
                          !.outs = RestOuts(c)],
          status |-> 201, err |-> FALSE, body |-> obj]
    ELSE [c |-> [c EXCEPT !.log = Append(@, LogEntry("POST", path, NoId,
                                              IF out = "status" THEN 500 ELSE 0)),
                          !.outs = RestOuts(c)],
          status |-> IF out = "status" THEN 500 ELSE 0,
          err |-> (out = "err"), body |-> body]

\* POST: 201 and the created object, another status, or a transport error
POST(c, path, body) ==
    Created(c, path, body, Assigned(path, body, FreshId(c, path, body)), Outcome(c))

\* What the server removes along with an object (the cascade rules)
Cascade(srv, path, id) ==
    IF path = "hostportlabels"
    THEN [srv EXCEPT !.hostportlabels = {o \in @ : o.id # id},
            !.hostportlabelsubnetassociations = {a \in @ : a.hostPortLabelId # id},
            !.hostportlabelhostportassociations = {a \in @ : a.hostPortLabelId # id}]
    ELSE IF path = "hostports"
    THEN [srv EXCEPT !.hostports = {o \in @ : o.id # id},
            !.hostportlabelhostportassociations = {a \in @ : a.hostPortId # id}]
    ELSE IF path = "subnets"
    THEN [srv EXCEPT !.subnets = {o \in @ : o.id # id},
            !.hostportlabelsubnetassociations = {a \in @ : a.subnetId # id}]
    ELSE IF path = "tenants"
    THEN LET gone == {s.id : s \in {o \in srv.subnets : o.tenantId = id}}
         IN  [srv EXCEPT !.tenants = {o \in @ : o.id # id},
                !.subnets = {o \in @ : o.tenantId # id},
                !.hostportlabelsubnetassociations = {a \in @ : a.subnetId \notin gone}]
    ELSE [srv EXCEPT ![path] = {o \in @ : o.id # id}]

\* DELETE: 204 when the object existed and is removed, else another status
DELETE(c, path, id) ==
    LET out == Outcome(c)
        exists == \E o \in c.srv[path] : o.id = id
        status == IF out = "err" THEN 0
                  ELSE IF out = "status" THEN 500
                  ELSE IF exists THEN 204 ELSE 404
    IN  [c |-> [c EXCEPT !.srv = IF status = 204 THEN Cascade(c.srv, path, id) ELSE @,
                         !.log = Append(@, LogEntry("DELETE", path, id, status)),
                         !.outs = RestOuts(c)],
         status |-> status, err |-> (out = "err")]

\* GET of a collection: 200 and the list, another status, or a transport error
GET(c, path) ==
    LET out == Outcome(c)
        status == IF out = "err" THEN 0 ELSE IF out = "status" THEN 500 ELSE 200
    IN  [c |-> [c EXCEPT !.log = Append(@, LogEntry("GET", path, NoId, status)),
                         !.outs = RestOuts(c)],
         status |-> status, err |-> (out = "err"),
         body |-> IF status = 200 THEN c.srv[path] ELSE {}]

\* ------------------------------------------------------ fabric object engine
\* Errors: "nil", "transport" (err != nil from the REST call), "status"
\* (unexpected status), "notexist", and "panic" (write to a nil map).

\* CreateSubnetInterface, step 1: the tenant, after its POST answered r
TenantPosted(fssWorkloadEvpnName, r) ==
    IF r.err THEN [c |-> r.c, err |-> "transport"]
    ELSE IF r.status # 201 THEN [c |-> r.c, err |-> "status"]
    ELSE [c |-> [r.c EXCEPT
                  !.db.workloadMapping = Put(@, fssWorkloadEvpnName, r.body.fssWorkloadEvpnId),
                  !.db.subnetMapping = Put(@, r.body.fssWorkloadEvpnId, EmptyMap),
                  !.db.tenants = Put(@, r.body.fssWorkloadEvpnId, r.body)],
          err |-> "nil"]

CreateTenant(c, fssWorkloadEvpnName) ==
    TenantPosted(fssWorkloadEvpnName,
                 POST(c, "tenants",
                      [deploymentId |-> c.deploymentID, fssWorkloadEvpnId |-> NoId,
                       fssWorkloadEvpnName |-> fssWorkloadEvpnName, id |-> NoId]))

\* CreateSubnetInterface, step 2: the subnet, after its POST answered r
SubnetPosted(fssWorkloadEvpnID, fssSubnetName, r) ==
    IF r.err THEN [c |-> r.c, err |-> "transport"]
    ELSE IF r.status # 201 THEN [c |-> r.c, err |-> "status"]
    ELSE IF ~Has(r.c.db.subnetMapping, fssWorkloadEvpnID) THEN [c |-> r.c, err |-> "panic"]
    ELSE [c |-> [r.c EXCEPT
                  !.db.subnetMapping[fssWorkloadEvpnID] =
                      Put(@, fssSubnetName, r.body.fssSubnetId),
                  !.db.subnets = Put(@, r.body.fssSubnetId, r.body),
                  !.db.hostPortLabels = Put(@, r.body.fssSubnetId, EmptyMap),
                  !.db.attachedLabels = Put(@, r.body.fssSubnetId, EmptyMap)],
          err |-> "nil"]

CreateSubnet(c, fssWorkloadEvpnID, fssSubnetName) ==
    SubnetPosted(fssWorkloadEvpnID, fssSubnetName,
                 POST(c, "subnets",
                      [deploymentId |-> c.deploymentID,
                       tenantId |-> IF Has(c.db.tenants, fssWorkloadEvpnID)
                                    THEN c.db.tenants[fssWorkloadEvpnID].id ELSE NoId,
                       fssSubnetId |-> NoId, fssSubnetName |-> fssSubnetName, id |-> NoId]))

\* a label creation that does not record the label in the mirror
LabelPosted_Unrecorded(fssSubnetID, vlan, hostPortLabelID, r) ==
    IF r.err
    THEN [c |-> r.c, err |-> "transport", fssSubnetID |-> fssSubnetID,
          hostPortLabelID |-> hostPortLabelID]
    ELSE IF r.status # 201
    THEN [c |-> r.c, err |-> "status", fssSubnetID |-> fssSubnetID,
          hostPortLabelID |-> hostPortLabelID]
    ELSE [c |-> r.c, err |-> "nil", fssSubnetID |-> fssSubnetID,
          hostPortLabelID |-> r.body.id]

\* CreateSubnetInterface, step 3: the hostPortLabel, after its POST answered r
LabelPosted(fssSubnetID, vlan, hostPortLabelID, r) ==
    IF r.err
    THEN [c |-> r.c, err |-> "transport", fssSubnetID |-> fssSubnetID,
          hostPortLabelID |-> hostPortLabelID]
    ELSE IF r.status # 201
    THEN [c |-> r.c, err |-> "status", fssSubnetID |-> fssSubnetID,
          hostPortLabelID |-> hostPortLabelID]
    ELSE IF ~Has(r.c.db.hostPortLabels, fssSubnetID)
    THEN [c |-> r.c, err |-> "panic", fssSubnetID |-> NoId, hostPortLabelID |-> NoId]
    ELSE [c |-> [r.c EXCEPT !.db.hostPortLabels[fssSubnetID] = Put(@, vlan, r.body.id)],
          err |-> "nil", fssSubnetID |-> fssSubnetID, hostPortLabelID |-> r.body.id]

CreateHostPortLabel(c, fssSubnetID, vlanID, ok12) ==
    LET vlan == MkVlan(vlanID)
        hostPortLabels == GetMap(c.db.hostPortLabels, fssSubnetID)
    IN  IF ok12 /\ Has(hostPortLabels, vlan)
        THEN [c |-> c, err |-> "nil", fssSubnetID |-> fssSubnetID,
              hostPortLabelID |-> GetId(hostPortLabels, vlan)]
        ELSE LabelPosted(fssSubnetID, vlan, GetId(hostPortLabels, vlan),
                         POST(c, "hostportlabels",
                              [deploymentId |-> c.deploymentID,
                               name |-> <<"label", fssSubnetID, vlanID>>, id |-> NoId]))

\* CreateSubnetInterface, once the subnet is there (s) or could not be made
WithSubnet(s, fssWorkloadEvpnID, fssSubnetName, vlanID, ok12) ==
    IF s.err # "nil"
    THEN [c |-> s.c, err |-> s.err, fssSubnetID |-> NoId, hostPortLabelID |-> NoId]
    ELSE CreateHostPortLabel(s.c,
             GetId(GetMap(s.c.db.subnetMapping, fssWorkloadEvpnID), fssSubnetName),
             vlanID, ok12)

\* CreateSubnetInterface, once the tenant is there (t) or could not be made
WithTenant(t, fssWorkloadEvpnID, fssSubnetName, vlanID, ok1) ==
    IF t.err # "nil"
    THEN [c |-> t.c, err |-> t.err, fssSubnetID |-> NoId, hostPortLabelID |-> NoId]
    ELSE IF Has(GetMap(t.c.db.subnetMapping, fssWorkloadEvpnID), fssSubnetName)
    THEN WithSubnet([c |-> t.c, err |-> "nil"], fssWorkloadEvpnID, fssSubnetName, vlanID, ok1)
    ELSE WithSubnet(CreateSubnet(t.c, fssWorkloadEvpnID, fssSubnetName),
                    fssWorkloadEvpnID, fssSubnetName, vlanID, FALSE)

\* CreateSubnetInterface goes on with the tenant workloadMapping names
TenantStep(t, fssWorkloadEvpnName, fssSubnetName, vlanID, ok1) ==
    WithTenant(t, GetId(t.c.db.workloadMapping, fssWorkloadEvpnName), fssSubnetName, vlanID,
               ok1)

CreateSubnetInterface(c, fssWorkloadEvpnName, fssSubnetName, vlanID) ==
    IF Has(c.db.workloadMapping, fssWorkloadEvpnName)
    THEN TenantStep([c |-> c, err |-> "nil"], fssWorkloadEvpnName, fssSubnetName, vlanID, TRUE)
    ELSE TenantStep(CreateTenant(c, fssWorkloadEvpnName), fssWorkloadEvpnName, fssSubnetName,
                    vlanID, FALSE)

GetSubnetInterface(c, fssWorkloadEvpnName, fssSubnetName, vlanID) ==
    LET fssWorkloadEvpnID == GetId(c.db.workloadMapping, fssWorkloadEvpnName)
        subnetIDs == GetMap(c.db.subnetMapping, fssWorkloadEvpnID)
        fssSubnetID == GetId(subnetIDs, fssSubnetName)
        hostPortLabels == GetMap(c.db.hostPortLabels, fssSubnetID)
        vlan == MkVlan(vlanID)
    IN  IF ~Has(c.db.workloadMapping, fssWorkloadEvpnName)
        THEN [fssWorkloadEvpnID |-> NoId, fssSubnetID |-> NoId,
              hostPortLabelID |-> NoId, exists |-> FALSE]
        ELSE IF ~Has(subnetIDs, fssSubnetName)
        THEN [fssWorkloadEvpnID |-> fssWorkloadEvpnID, fssSubnetID |-> NoId,
              hostPortLabelID |-> NoId, exists |-> FALSE]
        ELSE IF ~Has(hostPortLabels, vlan)
        THEN [fssWorkloadEvpnID |-> fssWorkloadEvpnID, fssSubnetID |-> fssSubnetID,
              hostPortLabelID |-> NoId, exists |-> FALSE]
        ELSE [fssWorkloadEvpnID |-> fssWorkloadEvpnID, fssSubnetID |-> fssSubnetID,
              hostPortLabelID |-> hostPortLabels[vlan], exists |-> TRUE]

\* AttachSubnetInterface, after the POST of the association answered r
AssociationPosted(fssSubnetID, vlan, r) ==
    IF r.err THEN [c |-> r.c, err |-> "transport"]
    ELSE IF r.status # 201 THEN [c |-> r.c, err |-> "status"]
    ELSE IF ~Has(r.c.db.attachedLabels, fssSubnetID) THEN [c |-> r.c, err |-> "panic"]
    ELSE [c |-> [r.c EXCEPT
                  !.db.attachedLabels[fssSubnetID] = Put(@, vlan, r.body.hostPortLabelId)],
          err |-> "nil"]

AttachSubnetInterface(c, fssSubnetID, vlanID, hostPortLabelID) ==
    LET attachedLabels == GetMap(c.db.attachedLabels, fssSubnetID)
        vlan == MkVlan(vlanID)
    IN  IF Has(attachedLabels, vlan) /\ hostPortLabelID = attachedLabels[vlan]
        THEN [c |-> c, err |-> "nil"]
        ELSE AssociationPosted(fssSubnetID, vlan,
                 POST(c, "hostportlabelsubnetassociations",
                      [deploymentId |-> c.deploymentID, hostPortLabelId |-> hostPortLabelID,
                       subnetId |-> IF Has(c.db.subnets, fssSubnetID)
                                    THEN c.db.subnets[fssSubnetID].id ELSE NoId,
                       vlanType |-> vlan.vlanType, vlanValue |-> vlan.vlanValue,
                       id |-> NoId]))

\* delete(m[k], key) on a map of maps: nothing happens when m[k] is nil
DelIn(m, k, key) == IF Has(m, k) THEN [m EXCEPT ![k] = Del(@, key)] ELSE m

\* a collapse of the tenant that forgets the name of the tenant
TenantDeleted_KeepsName(r, fssWorkloadEvpnID, tenant) ==
    [r.c EXCEPT !.db.subnetMapping = Del(@, fssWorkloadEvpnID),
                !.db.tenants = Del(@, fssWorkloadEvpnID)]

\* DeleteSubnetInterface, the tenant is dropped whatever its DELETE answered
TenantDeleted(r, fssWorkloadEvpnID, tenant) ==
    [r.c EXCEPT !.db.workloadMapping = Del(@, tenant.fssWorkloadEvpnName),
                !.db.subnetMapping = Del(@, fssWorkloadEvpnID),
                !.db.tenants = Del(@, fssWorkloadEvpnID)]

\* DeleteSubnetInterface, the upward collapse of the tenant
CollapseTenant(c, fssWorkloadEvpnID) ==
    IF Cardinality(DOMAIN GetMap(c.db.subnetMapping, fssWorkloadEvpnID)) = 0
       /\ Has(c.db.tenants, fssWorkloadEvpnID)
    THEN TenantDeleted(DELETE(c, "tenants", c.db.tenants[fssWorkloadEvpnID].id),
                       fssWorkloadEvpnID, c.db.tenants[fssWorkloadEvpnID])
    ELSE c

\* DeleteSubnetInterface, the subnet is dropped whatever its DELETE answered
SubnetDeleted(r, fssWorkloadEvpnID, fssSubnetID, subnet) ==
    [r.c EXCEPT !.db.subnetMapping = DelIn(@, fssWorkloadEvpnID, subnet.fssSubnetName),
                !.db.subnets = Del(@, fssSubnetID),
                !.db.hostPortLabels = Del(@, fssSubnetID),
                !.db.attachedLabels = Del(@, fssSubnetID)]

\* a collapse that deletes the tenant before the subnet
CollapseSubnet_TenantFirst(c, fssWorkloadEvpnID, fssSubnetID) ==
    IF Cardinality(DOMAIN GetMap(c.db.attachedLabels, fssSubnetID)) # 0 THEN c
    ELSE IF Has(c.db.subnets, fssSubnetID)
    THEN SubnetDeleted(DELETE(CollapseTenant(
                                  [c EXCEPT !.db.subnetMapping =
                                      DelIn(@, fssWorkloadEvpnID,
                                            c.db.subnets[fssSubnetID].fssSubnetName)],
                                  fssWorkloadEvpnID),
                              "subnets", c.db.subnets[fssSubnetID].id),
                       fssWorkloadEvpnID, fssSubnetID, c.db.subnets[fssSubnetID])
    ELSE CollapseTenant(c, fssWorkloadEvpnID)

\* DeleteSubnetInterface, the upward collapse of the subnet
CollapseSubnet(c, fssWorkloadEvpnID, fssSubnetID) ==
    IF Cardinality(DOMAIN GetMap(c.db.attachedLabels, fssSubnetID)) # 0 THEN c
    ELSE IF Has(c.db.subnets, fssSubnetID)
    THEN CollapseTenant(SubnetDeleted(DELETE(c, "subnets", c.db.subnets[fssSubnetID].id),
                                      fssWorkloadEvpnID, fssSubnetID,
                                      c.db.subnets[fssSubnetID]),
                        fssWorkloadEvpnID)
    ELSE CollapseTenant(c, fssWorkloadEvpnID)

\* a local deletion that leaves the label in attachedLabels
LabelDeleted_KeepsAttached(c, fssWorkloadEvpnID, fssSubnetID, vlan, hostPortLabelID, requestType) ==
    IF requestType = "DeleteDetach"
    THEN CollapseSubnet([c EXCEPT !.db.hostPortLabels = DelIn(@, fssSubnetID, vlan),
                                  !.db.attachedPorts = Del(@, hostPortLabelID)],
                        fssWorkloadEvpnID, fssSubnetID)
    ELSE [c EXCEPT !.db.hostPortLabels = DelIn(@, fssSubnetID, vlan),
                   !.db.attachedPorts = Del(@, hostPortLabelID)]

\* DeleteSubnetInterface, the local deletion and the collapse
LabelDeleted(c, fssWorkloadEvpnID, fssSubnetID, vlan, hostPortLabelID, requestType) ==
    IF requestType = "DeleteDetach"
    THEN CollapseSubnet([c EXCEPT !.db.hostPortLabels = DelIn(@, fssSubnetID, vlan),
                                  !.db.attachedLabels = DelIn(@, fssSubnetID, vlan),
                                  !.db.attachedPorts = Del(@, hostPortLabelID)],
                        fssWorkloadEvpnID, fssSubnetID)
    ELSE [c EXCEPT !.db.hostPortLabels = DelIn(@, fssSubnetID, vlan),
                   !.db.attachedLabels = DelIn(@, fssSubnetID, vlan),
                   !.db.attachedPorts = Del(@, hostPortLabelID)]

\* a DeleteSubnetInterface that gives up when the DELETE of the label is
\* answered with another status than 204
LabelDeleteAnswered_Aborts(r, fssWorkloadEvpnID, fssSubnetID, vlan, hostPortLabelID, requestType) ==
    IF r.err THEN [c |-> r.c, err |-> "transport"]
    ELSE IF r.status # 204 THEN [c |-> r.c, err |-> "status"]
    ELSE [c |-> LabelDeleted(r.c, fssWorkloadEvpnID, fssSubnetID, vlan, hostPortLabelID,
                             requestType),
          err |-> "nil"]

\* DeleteSubnetInterface, after the DELETE of the label answered r
LabelDeleteAnswered(r, fssWorkloadEvpnID, fssSubnetID, vlan, hostPortLabelID, requestType) ==
    IF r.err THEN [c |-> r.c, err |-> "transport"]
    ELSE [c |-> LabelDeleted(r.c, fssWorkloadEvpnID, fssSubnetID, vlan, hostPortLabelID,
                             requestType),
          err |-> IF r.status # 204 THEN "status" ELSE "nil"]

DeleteSubnetInterface(c, fssWorkloadEvpnID, fssSubnetID, vlanID, hostPortLabelID, requestType) ==
    LET vlan == MkVlan(vlanID)
        attached == GetMap(c.db.attachedLabels, fssSubnetID)
    IN  IF Has(attached, vlan) /\ hostPortLabelID = attached[vlan]
        THEN LabelDeleteAnswered(DELETE(c, "hostportlabels", hostPortLabelID),
                                 fssWorkloadEvpnID, fssSubnetID, vlan, hostPortLabelID,
                                 requestType)
        ELSE [c |-> LabelDeleted(c, fssWorkloadEvpnID, fssSubnetID, vlan, hostPortLabelID,
                                 requestType),
              err |-> "nil"]

\* ------------------------------------------------------------- host ports
\* GetHostPort: the lookup creates hostPorts[node] when it is missing
GetHostPort(c, node, port) ==
    IF Has(c.db.hostPorts, node)
    THEN [c |-> c, hostPortID |-> GetId(c.db.hostPorts[node], port),
          ok |-> Has(c.db.hostPorts[node], port)]
    ELSE [c |-> [c EXCEPT !.db.hostPorts = Put(@, node, EmptyMap)], hostPortID |-> NoId,
          ok |-> FALSE]

\* CreateHostPort, after the POST of the port answered r
HostPortPosted(node, portName, r) ==
    IF r.err THEN [c |-> r.c, err |-> "transport", hostPortID |-> NoId]
    ELSE IF r.status # 201 THEN [c |-> r.c, err |-> "status", hostPortID |-> NoId]
    ELSE [c |-> [r.c EXCEPT !.db.hostPorts[node] = Put(@, portName, r.body.id)],
          err |-> "nil", hostPortID |-> r.body.id]

\* a CreateHostPort that does not look whether the mirror has the port
HostPortLooked_Unchecked(g, deploymentID, node, port, isLag, parentHostPortID) ==
    HostPortPosted(node, port.name,
        POST(g.c, "hostports",
             [deploymentId |-> deploymentID, hostName |-> node, portName |-> port.name,
              isLag |-> isLag, macAddress |-> port.mac,
              parentHostPortId |-> parentHostPortID, id |-> NoId]))

\* CreateHostPort, after GetHostPort answered g
HostPortLooked(g, deploymentID, node, port, isLag, parentHostPortID) ==
    IF g.ok THEN [c |-> g.c, err |-> "nil", hostPortID |-> g.hostPortID]
    ELSE HostPortPosted(node, port.name,
             POST(g.c, "hostports",
                  [deploymentId |-> deploymentID, hostName |-> node, portName |-> port.name,
                   isLag |-> isLag, macAddress |-> port.mac,
                   parentHostPortId |-> parentHostPortID, id |-> NoId]))

CreateHostPort(c, node, port, isLag, parentHostPortID) ==
    HostPortLooked(GetHostPort(c, node, port.name), c.deploymentID, node, port, isLag,
                   parentHostPortID)

\* append(m[k], v) on a map of lists
AppendIn(m, k, v) == Put(m, k, Append(IF Has(m, k) THEN m[k] ELSE <<>>, v))

\* AttachHostPort, after the POST of the association answered r
PortAssociationPosted(hostPortLabelID, hostPortID, r) ==
    IF r.err THEN [c |-> r.c, err |-> "transport"]
    ELSE IF r.status # 201 THEN [c |-> r.c, err |-> "status"]
    ELSE [c |-> [r.c EXCEPT
                  !.db.attachedPorts =
                      AppendIn(@, hostPortLabelID, [h \in {hostPortID} |-> r.body.id])],
          err |-> "nil"]

\* attachedPorts[hostPortLabelID], the nil slice when there is none
AttachedPorts(db, hostPortLabelID) ==
    IF Has(db.attachedPorts, hostPortLabelID) THEN db.attachedPorts[hostPortLabelID] ELSE <<>>

\* an AttachHostPort that does not look whether the port is attached already
AttachLooked_Unchecked(g, deploymentID, hostPortLabelID, list) ==
    IF ~g.ok THEN [c |-> g.c, err |-> "notexist"]
    ELSE PortAssociationPosted(hostPortLabelID, g.hostPortID,
             POST(g.c, "hostportlabelhostportassociations",
                  [deploymentId |-> deploymentID, hostPortLabelId |-> hostPortLabelID,
                   hostPortId |-> g.hostPortID, id |-> NoId]))

\* AttachHostPort, after GetHostPort answered g
AttachLooked(g, deploymentID, hostPortLabelID, list) ==
    IF ~g.ok THEN [c |-> g.c, err |-> "notexist"]
    ELSE IF \E i \in 1..Len(list) : Has(list[i], g.hostPortID) THEN [c |-> g.c, err |-> "nil"]
    ELSE PortAssociationPosted(hostPortLabelID, g.hostPortID,
             POST(g.c, "hostportlabelhostportassociations",
                  [deploymentId |-> deploymentID, hostPortLabelId |-> hostPortLabelID,
                   hostPortId |-> g.hostPortID, id |-> NoId]))

AttachHostPort(c, hostPortLabelID, node, port) ==
    AttachLooked(GetHostPort(c, node, port.name), c.deploymentID, hostPortLabelID,
                 AttachedPorts(c.db, hostPortLabelID))

\* the backing array after append(s[:k], s[k+1:]...) on its first len entries
Removed(arr, len, k) ==
    SubSeq(arr, 1, k - 1) \o SubSeq(arr, k + 1, len) \o SubSeq(arr, len, Len(arr))

\* DetachHostPort, the loop: range walks the indices of the list as it was
\* when the loop started and reads through the backing array arr, of which
\* the list held by the mirror is the first len entries.
RECURSIVE DetachLoop(_, _, _, _, _, _, _), AssociationDeleted(_, _, _, _, _, _, _)
AssociationDeleted(r, hostPortLabelID, hostPortID, arr1, len, k, result) ==
    DetachLoop([r.c EXCEPT !.db.attachedPorts[hostPortLabelID] = SubSeq(arr1, 1, len - 1)],
               hostPortLabelID, hostPortID, arr1, len - 1, k + 1,
               IF r.status # 204 THEN "status" ELSE result)

DetachLoop(c, hostPortLabelID, hostPortID, arr, len, k, result) ==
    IF k > Len(arr) THEN [c |-> c, err |-> result]
    ELSE IF ~Has(arr[k], hostPortID)
    THEN DetachLoop(c, hostPortLabelID, hostPortID, arr, len, k + 1, result)
    ELSE IF k > len
    THEN [c |-> DELETE(c, "hostportlabelhostportassociations", arr[k][hostPortID]).c,
          err |-> "panic"]
    ELSE AssociationDeleted(DELETE(c, "hostportlabelhostportassociations", arr[k][hostPortID]),
                            hostPortLabelID, hostPortID, Removed(arr, len, k), len, k, result)

DetachHostPort(c, hostPortLabelID, node, port) ==
    LET hostPorts == GetMap(c.db.hostPorts, node)
        list == AttachedPorts(c.db, hostPortLabelID)
    IN  IF Has(hostPorts, port.name) /\ Len(list) > 0
        THEN DetachLoop(c, hostPortLabelID, hostPorts[port.name], list, Len(list), 1, "nil")
        ELSE [c |-> c, err |-> "nil"]

\* The keys of a Go map in the order one range statement visits them: ord
\* is an arbitrary enumeration of all names.
Keys(m, ord) == SelectSeq(ord, LAMBDA k : k \in DOMAIN m)

\* strings.Contains(name, "bond") on the port names in use
ContainsBond(name) == name \in {"tenant-bond", "provider-bond"}

RECURSIVE DeleteHostPorts(_, _)
DeleteHostPorts(c, ids) ==
    IF ids = <<>> THEN c
    ELSE DeleteHostPorts(DELETE(c, "hostports", Head(ids)).c, Tail(ids))

\* a DetachNode that deletes the ports in the order it meets them
NodePorts_AsMet(db, nodeName, ord, lag) ==
    LET hostPorts == GetMap(db.hostPorts, nodeName)
        ks == Keys(hostPorts, ord)
    IN  IF lag THEN <<>> ELSE [i \in 1..Len(ks) |-> hostPorts[ks[i]]]

\* the ids of the ports of a node, LAG ports (lag) or the others, in the
\* order the range statement visits them
NodePorts(db, nodeName, ord, lag) ==
    LET hostPorts == GetMap(db.hostPorts, nodeName)
        ks == SelectSeq(Keys(hostPorts, ord), LAMBDA k : ContainsBond(k) = lag)
    IN  [i \in 1..Len(ks) |-> hostPorts[ks[i]]]

DetachNode(c, nodeName, ord) ==
    [DeleteHostPorts(DeleteHostPorts(c, NodePorts(c.db, nodeName, ord, FALSE)),
                     NodePorts(c.db, nodeName, ord, TRUE))
        EXCEPT !.db.hostPorts = Del(@, nodeName)]

\* ------------------------------------------------------ VLAN-provider facade
\* The loops of Attach and Detach thread a = [c, nodesStatus].
\* nodesInfo : nodeName -> [Bonds : bondName -> [Mode, MacAddress, Ports],
\*                          SriovPools : poolName -> Ports]
\* Ports     : portName -> [name, mac]

SetStatus(a, key, err) == [a EXCEPT !.nodesStatus = Put(@, key, err)]

\* the engine answered r: go on from its context, an error noted under key
Noted(a, key, r) ==
    IF r.err # "nil" THEN SetStatus([a EXCEPT !.c = r.c], key, r.err) ELSE [a EXCEPT !.c = r.c]

\* Attach, one port after CreateHostPort answered r: AttachHostPort, whose
\* error goes to nodesStatus[attachKey]
PortCreated(a, hostPortLabelID, nodeName, attachKey, port, r) ==
    IF r.err # "nil" THEN SetStatus([a EXCEPT !.c = r.c], nodeName, r.err)
    ELSE Noted(a, attachKey, AttachHostPort(r.c, hostPortLabelID, nodeName, port))

\* for each port: CreateHostPort then AttachHostPort (non-802.3ad bonds and
\* SR-IOV pools); attachKey is the nodesStatus key that takes an attach error
RECURSIVE AttachPorts(_, _, _, _, _, _)
AttachPorts(a, hostPortLabelID, nodeName, attachKey, ports, ks) ==
    IF ks = <<>> THEN a
    ELSE AttachPorts(PortCreated(a, hostPortLabelID, nodeName, attachKey, ports[Head(ks)],
                                 CreateHostPort(a.c, nodeName, ports[Head(ks)], FALSE, NoId)),
                     hostPortLabelID, nodeName, attachKey, ports, Tail(ks))

\* the slave ports of an 802.3ad bond
RECURSIVE CreateSlaves(_, _, _, _, _)
CreateSlaves(a, nodeName, parentHostPortID, ports, ks) ==
    IF ks = <<>> THEN a
    ELSE CreateSlaves(Noted(a, nodeName,
                            CreateHostPort(a.c, nodeName, ports[Head(ks)], FALSE,
                                           parentHostPortID)),
                      nodeName, parentHostPortID, ports, Tail(ks))

\* an 802.3ad bond, once its slaves are made: attach the parent port
SlavesCreated(a, hostPortLabelID, nodeName, jsonNic) ==
    Noted(a, nodeName, AttachHostPort(a.c, hostPortLabelID, nodeName, jsonNic))

\* a bond whose slave ports are made without their parent
ParentCreated_NoParent(a, hostPortLabelID, nodeName, jsonNic, bond, ord, r) ==
    IF r.err # "nil" THEN SetStatus([a EXCEPT !.c = r.c], nodeName, r.err)
    ELSE SlavesCreated(CreateSlaves([a EXCEPT !.c = r.c], nodeName, NoId,
                                    bond.Ports, Keys(bond.Ports, ord)),
                       hostPortLabelID, nodeName, jsonNic)

\* an 802.3ad bond, after CreateHostPort answered r for the parent port
ParentCreated(a, hostPortLabelID, nodeName, jsonNic, bond, ord, r) ==
    IF r.err # "nil" THEN SetStatus([a EXCEPT !.c = r.c], nodeName, r.err)
    ELSE SlavesCreated(CreateSlaves([a EXCEPT !.c = r.c], nodeName, r.hostPortID,
                                    bond.Ports, Keys(bond.Ports, ord)),
                       hostPortLabelID, nodeName, jsonNic)

\* the nic made of a bond
BondNic(bondName, bond) == [name |-> bondName, mac |-> bond.MacAddress]

AttachBond(a, hostPortLabelID, nodeName, bondName, bond, ord) ==
    IF bond.Mode = "802.3ad"
    THEN ParentCreated(a, hostPortLabelID, nodeName, BondNic(bondName, bond), bond, ord,
                       CreateHostPort(a.c, nodeName, BondNic(bondName, bond), TRUE, NoId))
    ELSE AttachPorts(a, hostPortLabelID, nodeName, nodeName, bond.Ports, Keys(bond.Ports, ord))

RECURSIVE AttachBonds(_, _, _, _, _, _)
AttachBonds(a, hostPortLabelID, nodeName, bonds, ks, ord) ==
    IF ks = <<>> THEN a
    ELSE AttachBonds(AttachBond(a, hostPortLabelID, nodeName, Head(ks), bonds[Head(ks)], ord),
                     hostPortLabelID, nodeName, bonds, Tail(ks), ord)

RECURSIVE AttachPools(_, _, _, _, _, _)
AttachPools(a, hostPortLabelID, nodeName, pools, ks, ord) ==
    IF ks = <<>> THEN a
    ELSE AttachPools(AttachPorts(a, hostPortLabelID, nodeName, Head(ks), pools[Head(ks)],
                                 Keys(pools[Head(ks)], ord)),
                     hostPortLabelID, nodeName, pools, Tail(ks), ord)

\* Attach, one node: its bonds, then its SR-IOV pools
AttachToNode(a, hostPortLabelID, nodeName, nodeTopology, ord) ==
    AttachPools(AttachBonds(a, hostPortLabelID, nodeName, nodeTopology.Bonds,
                            Keys(nodeTopology.Bonds, ord), ord),
                hostPortLabelID, nodeName, nodeTopology.SriovPools,
                Keys(nodeTopology.SriovPools, ord), ord)

\* an Attach that leaves the nodes that follow a node with an error
RECURSIVE AttachNodes_FirstError(_, _, _, _, _)
AttachNodes_FirstError(a, hostPortLabelID, nodesInfo, ks, ord) ==
    IF ks = <<>> \/ \E k \in DOMAIN a.nodesStatus : a.nodesStatus[k] # "nil" THEN a
    ELSE AttachNodes_FirstError(AttachToNode(a, hostPortLabelID, Head(ks), nodesInfo[Head(ks)],
                                             ord),
                                hostPortLabelID, nodesInfo, Tail(ks), ord)

RECURSIVE AttachNodes(_, _, _, _, _)
AttachNodes(a, hostPortLabelID, nodesInfo, ks, ord) ==
    IF ks = <<>> THEN a
    ELSE AttachNodes(AttachToNode(a, hostPortLabelID, Head(ks), nodesInfo[Head(ks)], ord),
                     hostPortLabelID, nodesInfo, Tail(ks), ord)

\* Attach, the loop over the vlan ids: v = [w, s, nodesInfo, requestType, ord]
\* are the arguments every round reads
RECURSIVE AttachVlans(_, _, _), InterfaceAttached(_, _, _, _), NodesAttached(_, _, _, _),
          InterfaceCreated(_, _, _, _)
\* after AttachSubnetInterface answered r
InterfaceAttached(a, v, vlanIDs, r) ==
    IF r.err # "nil" THEN [c |-> r.c, nodesStatus |-> a.nodesStatus, err |-> r.err]
    ELSE AttachVlans([a EXCEPT !.c = r.c], v, Tail(vlanIDs))

\* after the nodes are done, r what CreateSubnetInterface answered
NodesAttached(a, v, vlanIDs, r) ==
    IF v.requestType \notin {"CreateAttach", "UpdateAttach"}
    THEN AttachVlans(a, v, Tail(vlanIDs))
    ELSE InterfaceAttached(a, v, vlanIDs,
             AttachSubnetInterface(a.c, r.fssSubnetID, Head(vlanIDs), r.hostPortLabelID))

\* an Attach that attaches the label to the subnet before it visits the nodes
InterfaceCreated_SubnetFirst(a, v, vlanIDs, r) ==
    IF r.err # "nil" THEN [c |-> r.c, nodesStatus |-> a.nodesStatus, err |-> r.err]
    ELSE IF v.requestType \notin {"CreateAttach", "UpdateAttach"}
    THEN NodesAttached(AttachNodes([a EXCEPT !.c = r.c], r.hostPortLabelID, v.nodesInfo,
                                   Keys(v.nodesInfo, v.ord), v.ord),
                       v, vlanIDs, r)
    ELSE AttachVlans(AttachNodes([a EXCEPT !.c =
                                     AttachSubnetInterface(r.c, r.fssSubnetID, Head(vlanIDs),
                                                           r.hostPortLabelID).c],
                                 r.hostPortLabelID, v.nodesInfo, Keys(v.nodesInfo, v.ord),
                                 v.ord),
                     v, Tail(vlanIDs))

\* after CreateSubnetInterface answered r
InterfaceCreated(a, v, vlanIDs, r) ==
    IF r.err # "nil" THEN [c |-> r.c, nodesStatus |-> a.nodesStatus, err |-> r.err]
    ELSE NodesAttached(AttachNodes([a EXCEPT !.c = r.c], r.hostPortLabelID, v.nodesInfo,
                                   Keys(v.nodesInfo, v.ord), v.ord),
                       v, vlanIDs, r)

AttachVlans(a, v, vlanIDs) ==
    IF vlanIDs = <<>> THEN [c |-> a.c, nodesStatus |-> a.nodesStatus, err |-> "nil"]
    ELSE InterfaceCreated(a, v, vlanIDs,
                          CreateSubnetInterface(a.c, v.w, v.s, Head(vlanIDs)))

\* Attach, given the ids GetVlanIds returned for the vlanRange
Attach(c, fssWorkloadEvpnName, fssSubnetName, vlanIDs, nodesInfo, requestType, ord) ==
    AttachVlans([c |-> c, nodesStatus |-> [k \in DOMAIN nodesInfo |-> "nil"]],
                [w |-> fssWorkloadEvpnName, s |-> fssSubnetName, nodesInfo |-> nodesInfo,
                 requestType |-> requestType, ord |-> ord],
                vlanIDs)

\* Detach, one port after DetachHostPort answered r: its result overwrites
\* nodesStatus[nodeName]
PortDetached(a, nodeName, r) ==
    IF r.err = "panic" THEN [a EXCEPT !.c = r.c, !.panic = TRUE]
    ELSE SetStatus([a EXCEPT !.c = r.c], nodeName, r.err)

RECURSIVE DetachPorts(_, _, _, _, _)
DetachPorts(a, hostPortLabelID, nodeName, ports, ks) ==
    IF ks = <<>> \/ a.panic THEN a
    ELSE DetachPorts(PortDetached(a, nodeName,
                                  DetachHostPort(a.c, hostPortLabelID, nodeName,
                                                 ports[Head(ks)])),
                     hostPortLabelID, nodeName, ports, Tail(ks))

DetachBond(a, hostPortLabelID, nodeName, bondName, bond, ord) ==
    IF bond.Mode = "802.3ad"
    THEN DetachPorts(a, hostPortLabelID, nodeName,
                     [k \in {bondName} |-> BondNic(bondName, bond)], <<bondName>>)
    ELSE DetachPorts(a, hostPortLabelID, nodeName, bond.Ports, Keys(bond.Ports, ord))

RECURSIVE DetachBonds(_, _, _, _, _, _)
DetachBonds(a, hostPortLabelID, nodeName, bonds, ks, ord) ==
    IF ks = <<>> THEN a
    ELSE DetachBonds(DetachBond(a, hostPortLabelID, nodeName, Head(ks), bonds[Head(ks)], ord),
                     hostPortLabelID, nodeName, bonds, Tail(ks), ord)

RECURSIVE DetachPools(_, _, _, _, _, _)
DetachPools(a, hostPortLabelID, nodeName, pools, ks, ord) ==
    IF ks = <<>> THEN a
    ELSE DetachPools(DetachPorts(a, hostPortLabelID, nodeName, pools[Head(ks)],
                                 Keys(pools[Head(ks)], ord)),
                     hostPortLabelID, nodeName, pools, Tail(ks), ord)

\* Detach, one node: its bonds, then its SR-IOV pools
DetachFromNode(a, hostPortLabelID, nodeName, nodeTopology, ord) ==
    DetachPools(DetachBonds(a, hostPortLabelID, nodeName, nodeTopology.Bonds,
                            Keys(nodeTopology.Bonds, ord), ord),
                hostPortLabelID, nodeName, nodeTopology.SriovPools,
                Keys(nodeTopology.SriovPools, ord), ord)

RECURSIVE DetachNodes(_, _, _, _, _)
DetachNodes(a, hostPortLabelID, nodesInfo, ks, ord) ==
    IF ks = <<>> THEN a
    ELSE DetachNodes(DetachFromNode(a, hostPortLabelID, Head(ks), nodesInfo[Head(ks)], ord),
                     hostPortLabelID, nodesInfo, Tail(ks), ord)

\* Detach, the loop over the vlan ids: v = [w, s, nodesInfo, requestType, ord]
RECURSIVE DetachVlans(_, _, _), InterfaceDeleted(_, _, _, _), NodesDetached(_, _, _),
          InterfaceFound(_, _, _, _)
\* after DeleteSubnetInterface answered r
InterfaceDeleted(a, v, vlanIDs, r) ==
    IF r.err # "nil" THEN [c |-> r.c, nodesStatus |-> a.nodesStatus, err |-> r.err]
    ELSE DetachVlans([a EXCEPT !.c = r.c], v, Tail(vlanIDs))

\* after the ports of the nodes are detached
NodesDetached(a, v, vlanIDs) ==
    IF a.panic THEN [c |-> a.c, nodesStatus |-> a.nodesStatus, err |-> "panic"]
    ELSE DetachVlans(a, v, Tail(vlanIDs))

\* after GetSubnetInterface answered g
InterfaceFound(a, v, vlanIDs, g) ==
    IF ~g.exists THEN [c |-> a.c, nodesStatus |-> a.nodesStatus, err |-> "notexist"]
    ELSE IF v.requestType \in {"DeleteDetach", "UpdateDetach"}
    THEN InterfaceDeleted(a, v, vlanIDs,
             DeleteSubnetInterface(a.c, g.fssWorkloadEvpnID, g.fssSubnetID, Head(vlanIDs),
                                   g.hostPortLabelID, v.requestType))
    ELSE NodesDetached(DetachNodes(a, g.hostPortLabelID, v.nodesInfo,
                                   Keys(v.nodesInfo, v.ord), v.ord),
                       v, vlanIDs)

DetachVlans(a, v, vlanIDs) ==
    IF vlanIDs = <<>> THEN [c |-> a.c, nodesStatus |-> a.nodesStatus, err |-> "nil"]
    ELSE InterfaceFound(a, v, vlanIDs, GetSubnetInterface(a.c, v.w, v.s, Head(vlanIDs)))

\* Detach, given the ids GetVlanIds returned for the vlanRange
Detach(c, fssWorkloadEvpnName, fssSubnetName, vlanIDs, nodesInfo, requestType, ord) ==
    DetachVlans([c |-> c, nodesStatus |-> [k \in DOMAIN nodesInfo |-> "nil"], panic |-> FALSE],
                [w |-> fssWorkloadEvpnName, s |-> fssSubnetName, nodesInfo |-> nodesInfo,
                 requestType |-> requestType, ord |-> ord],
                vlanIDs)

\* ------------------------------------------------------------------ resync
\* A list the server returns, in the order of the ids
RECURSIVE ListOf(_)
ListOf(S) ==
    IF S = {} THEN <<>>
    ELSE LET o == CHOOSE x \in S : \A y \in S : x.id <= y.id
         IN  <<o>> \o ListOf(S \ {o})

\* Resync, restart: drop the local tenants the server does not list
ShrinkTenants(db, serverTenants, deploymentID) ==
    LET unknown == {w \in DOMAIN db.tenants :
                       /\ db.tenants[w].deploymentId = deploymentID
                       /\ ~\E t \in serverTenants : w = t.fssWorkloadEvpnId}
        names == {db.tenants[w].fssWorkloadEvpnName : w \in unknown}
    IN  [db EXCEPT !.tenants = [w \in DOMAIN @ \ unknown |-> @[w]],
                   !.workloadMapping = [n \in DOMAIN @ \ names |-> @[n]],
                   !.subnetMapping = [w \in DOMAIN @ \ unknown |-> @[w]]]

\* Resync, restart: drop the local subnets the server does not list, with
\* their labels and the ports attached to these labels
ShrinkSubnets(db, serverSubnets, deploymentID) ==
    LET unknown == {s \in DOMAIN db.subnets :
                       /\ db.subnets[s].deploymentId = deploymentID
                       /\ ~\E t \in serverSubnets : s = t.fssSubnetId}
        labels == UNION {Values(db.hostPortLabels[s]) :
                            s \in unknown \cap DOMAIN db.hostPortLabels}
    IN  [db EXCEPT !.subnets = [s \in DOMAIN @ \ unknown |-> @[s]],
                   !.attachedLabels = [s \in DOMAIN @ \ unknown |-> @[s]],
                   !.hostPortLabels = [s \in DOMAIN @ \ unknown |-> @[s]],
                   !.attachedPorts = [l \in DOMAIN @ \ labels |-> @[l]]]

\* TxnDone: encode the mirror and save it under the database key; cmOk
\* tells whether setConfigMap could update the ConfigMap
TxnDone(db, cm, cmOk) == IF cmOk THEN [cm EXCEPT !.database = encode(db)] ELSE cm

KnownLabel(db, id) ==
    \E s \in DOMAIN db.hostPortLabels : \E v \in DOMAIN db.hostPortLabels[s] :
        db.hostPortLabels[s][v] = id

KnownHostPort(db, id) ==
    \E n \in DOMAIN db.hostPorts : \E p \in DOMAIN db.hostPorts[n] : db.hostPorts[n][p] = id

KnownTenant(db, id) == \E w \in DOMAIN db.tenants : db.tenants[w].id = id

\* which listed objects the server shrink deletes at once
Unknown(path, db, v) ==
    IF path = "hostportlabels" THEN ~KnownLabel(db, v.id)
    ELSE IF path = "hostports" THEN ~KnownHostPort(db, v.id) /\ ~v.isLag
    ELSE ~KnownTenant(db, v.id)

\* a purge that does not ask whether the mirror knows v
PurgeOne_Known(c, path, v) ==
    IF v.deploymentId = c.deploymentID /\ (path = "hostports" => ~v.isLag)
    THEN DELETE(c, path, v.id).c ELSE c

\* DELETE v when it belongs to the deployment and the mirror does not know it
PurgeOne(c, path, v) ==
    IF v.deploymentId = c.deploymentID /\ Unknown(path, c.db, v)
    THEN DELETE(c, path, v.id).c ELSE c

\* DELETE, one after the other, the unknown objects of list that belong to
\* the deployment
RECURSIVE PurgeList(_, _, _)
PurgeList(c, path, list) ==
    IF list = <<>> THEN c
    ELSE PurgeList(PurgeOne(c, path, Head(list)), path, Tail(list))

\* lagPorts[v.HostName][v.PortName] = v.ID for an unknown LAG port
AddLagPort(c, lagPorts, v) ==
    IF v.deploymentId = c.deploymentID /\ ~KnownHostPort(c.db, v.id) /\ v.isLag
    THEN Put(lagPorts, v.hostName, Put(GetMap(lagPorts, v.hostName), v.portName, v.id))
    ELSE lagPorts

\* the unknown LAG ports, by host name and port name
RECURSIVE LagPorts(_, _, _)
LagPorts(c, list, lagPorts) ==
    IF list = <<>> THEN lagPorts
    ELSE LagPorts(c, Tail(list), AddLagPort(c, lagPorts, Head(list)))

\* the ids of a map of ports in the order a range statement visits them
IdsOf(m, ord) == [i \in 1..Len(Keys(m, ord)) |-> m[Keys(m, ord)[i]]]

RECURSIVE PurgeLagPorts(_, _, _, _)
PurgeLagPorts(c, lagPorts, nodes, ord) ==
    IF nodes = <<>> THEN c
    ELSE PurgeLagPorts(DeleteHostPorts(c, IdsOf(lagPorts[Head(nodes)], ord)),
                       lagPorts, Tail(nodes), ord)

\* server shrink, the unknown LAG ports collected: delete them, then the
\* unknown tenants of the list fetched for the mirror shrink
LagPortsFound(c, lagPorts, serverTenants, ord) ==
    [c |-> PurgeList(PurgeLagPorts(c, lagPorts, Keys(lagPorts, ord), ord),
                     "tenants", ListOf(serverTenants)),
     err |-> "nil"]

\* server shrink, the unknown plain ports deleted
HostPortsPurged(c, list, serverTenants, ord) ==
    LagPortsFound(c, LagPorts(c, list, EmptyMap), serverTenants, ord)

\* server shrink, after GET hostPorts answered g
HostPortsListed(g, serverTenants, ord) ==
    IF g.err THEN [c |-> g.c, err |-> "transport"]
    ELSE IF g.status # 200 THEN [c |-> g.c, err |-> "status"]
    ELSE HostPortsPurged(PurgeList(g.c, "hostports", ListOf(g.body)), ListOf(g.body),
                         serverTenants, ord)

\* server shrink, after GET hostPortLabels answered g
LabelsListed(g, serverTenants, ord) ==
    IF g.err THEN [c |-> g.c, err |-> "transport"]
    ELSE IF g.status # 200 THEN [c |-> g.c, err |-> "status"]
    ELSE HostPortsListed(GET(PurgeList(g.c, "hostportlabels", ListOf(g.body)), "hostports"),
                         serverTenants, ord)

\* Resync, restart: delete from the server what the mirror does not know
ServerShrink(c, serverTenants, ord) ==
    LabelsListed(GET(c, "hostportlabels"), serverTenants, ord)

\* Resync, restart, after the server shrink returned r; cm is the ConfigMap
\* TxnDone left
ServerShrunk(r, cm, cmOk) == [c |-> r.c, cm |-> cm, err |-> r.err, phaseB |-> cmOk]

\* a resync that saves the shrunken mirror after the server shrink, when that
\* one succeeded
MirrorShrunk_ServerFirst(db, c, serverTenants, cm, cmOk, ord) ==
    LET r == ServerShrink([c EXCEPT !.db = db], serverTenants, ord)
    IN  ServerShrunk(r, IF r.err = "nil" THEN TxnDone(db, cm, cmOk) ELSE cm, cmOk)

\* Resync, restart, the mirror shrunk to db: TxnDone, then the server shrink
MirrorShrunk(db, c, serverTenants, cm, cmOk, ord) ==
    ServerShrunk(ServerShrink([c EXCEPT !.db = db], serverTenants, ord),
                 TxnDone(db, cm, cmOk), cmOk)

\* Resync, restart, after GET subnets answered g
SubnetsListed(g, serverTenants, cm, cmOk, ord) ==
    IF g.err THEN [c |-> g.c, cm |-> cm, err |-> "transport", phaseB |-> FALSE]
    ELSE IF g.status # 200 THEN [c |-> g.c, cm |-> cm, err |-> "status", phaseB |-> FALSE]
    ELSE MirrorShrunk(ShrinkSubnets(g.c.db, g.body, g.c.deploymentID), g.c, serverTenants,
                      cm, cmOk, ord)

\* Resync, restart, after GET tenants answered g
TenantsListed(g, cm, cmOk, ord) ==
    IF g.err THEN [c |-> g.c, cm |-> cm, err |-> "transport", phaseB |-> FALSE]
    ELSE IF g.status # 200 THEN [c |-> g.c, cm |-> cm, err |-> "status", phaseB |-> FALSE]
    ELSE SubnetsListed(GET([g.c EXCEPT !.db = ShrinkTenants(g.c.db, g.body, g.c.deploymentID)],
                           "subnets"),
                       g.body, cm, cmOk, ord)

\* Resync(firstRun = false, deploymentID): mirror shrink, TxnDone, server
\* shrink.  phaseB tells whether the mirror shrink was completed and saved.
ResyncRestart(c, cm, cmOk, ord) == TenantsListed(GET(c, "tenants"), cm, cmOk, ord)

\* ---------------------------------------------------------------- bootstrap
\* GET of one object: 200 and the object, 404, another status, or a
\* transport error
GETOne(c, path, id) ==
    LET out == Outcome(c)
        status == IF out = "err" THEN 0
                  ELSE IF out = "status" THEN 500
                  ELSE IF \E o \in c.srv[path] : o.id = id THEN 200 ELSE 404
    IN  [c |-> [c EXCEPT !.log = Append(@, LogEntry("GET", path, id, status)),
                         !.outs = RestOuts(c)],
         status |-> status, err |-> (out = "err"),
         body |-> {o \in c.srv[path] : o.id = id /\ status = 200}]

\* "ncs-" + cfg.Clustername
DeploymentName == "ncs-cluster"

NoDeployment == [id |-> NoId, name |-> "", pluginId |-> NoId, adminUp |-> FALSE]

\* the ConfigMap fss-database as NewFssClient creates it; an empty database
\* key loads as the empty mirror
NewConfigMap == [exists |-> TRUE, plugin |-> NoId, deployment |-> NoDeployment,
                 database |-> encode(EmptyDatabase)]

\* no ConfigMap fss-database
NoConfigMap == [NewConfigMap EXCEPT !.exists = FALSE]

\* ------------------------------------------------------------ setConfigMap
\* the attempts of setConfigMap
Attempts == 256

\* the Data of the ConfigMap as NewFssClient creates it
EmptyData == [plugin |-> "", deployment |-> "", database |-> ""]

\* a setConfigMap that gets the ConfigMap in its first attempt only
Fetched_Once(w, data, ok) ==
    IF ok
    THEN [w EXCEPT !.pc = "update", !.gets = @ + 1, !.stale = FALSE,
                   !.fetched = [(IF w.i = 0 THEN data ELSE w.fetched) EXCEPT ![w.name] = w.data]]
    ELSE [w EXCEPT !.pc = "done", !.gets = @ + 1, !.err = "panic"]

\* setConfigMap threads w = [pc, name, data, i, stale, gets, updates, last,
\* err, fetched]: i is the loop counter, fetched the Data of f.configmap,
\* stale whether the ConfigMap was written since it was fetched, last the
\* answer to the last Update, gets and updates the calls made.
\* One attempt, the Get answered: f.configmap.Data[name] = string(data); a
\* failed Get leaves no Data to write to
Fetched(w, data, ok) ==
    IF ok
    THEN [w EXCEPT !.pc = "update", !.gets = @ + 1, !.stale = FALSE,
                   !.fetched = [data EXCEPT ![w.name] = w.data]]
    ELSE [w EXCEPT !.pc = "done", !.gets = @ + 1, !.err = "panic"]

\* a setConfigMap that goes on after an error that is no conflict
Updated_RetriesAll(w, out) ==
    IF out = "ok" THEN [w EXCEPT !.pc = "done", !.updates = @ + 1, !.last = out, !.err = "nil"]
    ELSE IF w.i + 1 < Attempts
    THEN [w EXCEPT !.pc = "get", !.updates = @ + 1, !.last = out, !.i = @ + 1]
    ELSE [w EXCEPT !.pc = "done", !.updates = @ + 1, !.last = out, !.i = @ + 1, !.err = out]

\* One attempt, the Update answered out: "ok", "conflict" or "error"
Updated(w, out) ==
    IF out = "ok" THEN [w EXCEPT !.pc = "done", !.updates = @ + 1, !.last = out, !.err = "nil"]
    ELSE IF out # "conflict"
    THEN [w EXCEPT !.pc = "done", !.updates = @ + 1, !.last = out, !.err = out]
    ELSE IF w.i + 1 < Attempts
    THEN [w EXCEPT !.pc = "get", !.updates = @ + 1, !.last = out, !.i = @ + 1]
    ELSE [w EXCEPT !.pc = "done", !.updates = @ + 1, !.last = out, !.i = @ + 1, !.err = out]

\* NewFssClient threads b = [c, cm, err, firstRun, hasDeployment, plugin,
\* deployment]: the ConfigMap cm, f.plugin.ID and f.deployment
Failed(b, c, err) == [b EXCEPT !.c = c, !.err = err]

\* the last registration, after GET plugins/{id} answered g
PluginValidated(b, g) ==
    IF g.err THEN Failed(b, g.c, "transport")
    ELSE IF g.status # 200 THEN [b EXCEPT !.c = g.c, !.firstRun = TRUE]
    ELSE [b EXCEPT !.c = g.c, !.plugin = b.cm.plugin]

CheckPlugin(b) ==
    IF b.firstRun THEN b
    ELSE IF b.cm.plugin # NoId THEN PluginValidated(b, GETOne(b.c, "plugins", b.cm.plugin))
    ELSE [b EXCEPT !.firstRun = TRUE]

\* the last deployment, after GET deployments/{id} answered g: the stored
\* deployment is taken as it is stored
DeploymentValidated(b, g) ==
    IF g.err THEN Failed(b, g.c, "transport")
    ELSE IF g.status # 200 THEN [b EXCEPT !.c = g.c]
    ELSE [b EXCEPT !.c = g.c, !.hasDeployment = TRUE, !.deployment = b.cm.deployment]

CheckDeployment(b) ==
    IF b.err # "nil" \/ b.firstRun THEN b
    ELSE IF b.cm.deployment # NoDeployment /\ b.cm.deployment.pluginId = b.plugin
    THEN DeploymentValidated(b, GETOne(b.c, "deployments", b.cm.deployment.id))
    ELSE b

\* after POST plugins answered r
PluginPosted(b, r) ==
    IF r.err THEN Failed(b, r.c, "transport")
    ELSE IF r.status # 201 THEN Failed(b, r.c, "status")
    ELSE [b EXCEPT !.c = r.c, !.plugin = r.body.id, !.cm.plugin = r.body.id]

CreatePlugin(b) ==
    IF b.err # "nil" \/ ~b.firstRun THEN b
    ELSE PluginPosted(b, POST(b.c, "plugins", [id |-> NoId, name |-> DeploymentName]))

\* after POST deployments answered r
DeploymentPosted(b, r) ==
    IF r.err THEN Failed(b, r.c, "transport")
    ELSE IF r.status # 201 THEN Failed(b, r.c, "status")
    ELSE [b EXCEPT !.c = r.c, !.deployment = r.body, !.cm.deployment = r.body]

CreateDeployment(b) ==
    IF b.err # "nil" \/ b.hasDeployment THEN b
    ELSE DeploymentPosted(b, POST(b.c, "deployments",
                                  [id |-> NoId, name |-> DeploymentName,
                                   pluginId |-> b.plugin, adminUp |-> FALSE]))

\* NewFssClient up to the wait for adminUp
Register(c, cm) ==
    CreateDeployment(CreatePlugin(CheckDeployment(CheckPlugin(
        [c |-> c, cm |-> IF cm.exists THEN cm ELSE NewConfigMap, err |-> "nil",
         firstRun |-> ~cm.exists, hasDeployment |-> FALSE,
         plugin |-> NoId, deployment |-> NoDeployment]))))

\* DELETE, one after the other, the objects with these ids
RECURSIVE DeleteEach(_, _, _)
DeleteEach(c, path, ids) ==
    IF ids = <<>> THEN c
    ELSE DeleteEach(DELETE(c, path, Head(ids)).c, path, Tail(ids))

\* the ids of the listed objects of a deployment, in the order of the list
StaleIds(S, id) ==
    LET list == ListOf({o \in S : o.deploymentId = id})
    IN  [i \in 1..Len(list) |-> list[i].id]

\* lagPorts[v1.HostName][v1.PortName] = v1.ID for the LAG ports of a deployment
StaleLagPorts(S, id) ==
    LET lag == {o \in S : o.deploymentId = id /\ o.isLag}
    IN  [n \in {o.hostName : o \in lag} |->
            [q \in {o.portName : o \in {x \in lag : x.hostName = n}} |->
                (CHOOSE o \in lag : o.hostName = n /\ o.portName = q).id]]

\* Resync on a first run: the purge of the deployments of the same name
RECURSIVE StaleDeployments(_, _, _), StaleLabelsListed(_, _, _), StaleHostPortsListed(_, _, _),
          StaleTenantsListed(_, _, _)
\* after GET tenants answered g
StaleTenantsListed(g, list, ord) ==
    IF g.err THEN [c |-> g.c, err |-> "transport"]
    ELSE IF g.status # 200 THEN [c |-> g.c, err |-> "status"]
    ELSE StaleDeployments(DeleteEach(g.c, "tenants", StaleIds(g.body, Head(list).id)),
                          Tail(list), ord)

\* a purge that deletes the LAG ports of a deployment before its other ports
StaleHostPortsListed_LagFirst(g, list, ord) ==
    IF g.err THEN [c |-> g.c, err |-> "transport"]
    ELSE IF g.status # 200 THEN [c |-> g.c, err |-> "status"]
    ELSE StaleTenantsListed(
             GET(DeleteEach(PurgeLagPorts(g.c, StaleLagPorts(g.body, Head(list).id),
                                          Keys(StaleLagPorts(g.body, Head(list).id), ord), ord),
                            "hostports", StaleIds({o \in g.body : ~o.isLag}, Head(list).id)),
                 "tenants"),
             list, ord)

\* after GET hostPorts answered g: the ports that are no LAG, then the LAG
\* ports
StaleHostPortsListed(g, list, ord) ==
    IF g.err THEN [c |-> g.c, err |-> "transport"]
    ELSE IF g.status # 200 THEN [c |-> g.c, err |-> "status"]
    ELSE StaleTenantsListed(
             GET(PurgeLagPorts(DeleteEach(g.c, "hostports",
                                          StaleIds({o \in g.body : ~o.isLag}, Head(list).id)),
                               StaleLagPorts(g.body, Head(list).id),
                               Keys(StaleLagPorts(g.body, Head(list).id), ord), ord),
                 "tenants"),
             list, ord)

\* after GET hostPortLabels answered g: a status that is not 200 comes with
\* a nil err, whose Error() the log statement calls
StaleLabelsListed(g, list, ord) ==
    IF g.err THEN [c |-> g.c, err |-> "transport"]
    ELSE IF g.status # 200 THEN [c |-> g.c, err |-> "panic"]
    ELSE StaleHostPortsListed(
             GET(DeleteEach(g.c, "hostportlabels", StaleIds(g.body, Head(list).id)),
                 "hostports"),
             list, ord)

StaleDeployments(c, list, ord) ==
    IF list = <<>> THEN [c |-> c, err |-> "nil"]
    ELSE StaleLabelsListed(GET(c, "hostportlabels"), list, ord)

\* after GET deployments answered g
DeploymentsListed(g, deploymentID, ord) ==
    IF g.err THEN [c |-> g.c, err |-> "transport"]
    ELSE IF g.status # 200 THEN [c |-> g.c, err |-> "status"]
    ELSE StaleDeployments(g.c, ListOf({v \in g.body : v.name = DeploymentName
                                                      /\ v.id # deploymentID}), ord)

\* Resync(firstRun = true, deploymentID)
ResyncFirstRun(c, deploymentID, ord) == DeploymentsListed(GET(c, "deployments"), deploymentID, ord)

\* NewFssClient after the wait for adminUp: the database is created, saved
\* on a first run and loaded otherwise, and resynced; cmOk tells whether the
\* setConfigMap of TxnDone could update the ConfigMap
Resynced(r, cm, firstRun, deployment) ==
    [c |-> r.c, cm |-> cm, err |-> r.err, firstRun |-> firstRun, deployment |-> deployment]

Finish(c, cm, firstRun, deployment, cmOk, ord) ==
    IF firstRun
    THEN Resynced(ResyncFirstRun([c EXCEPT !.db = EmptyDatabase, !.deploymentID = deployment.id],
                                 deployment.id, ord),
                  TxnDone(EmptyDatabase, cm, cmOk), firstRun, deployment)
    ELSE Resynced(ResyncRestart([c EXCEPT !.db = decode(cm.database),
                                          !.deploymentID = deployment.id],
                                cm, cmOk, ord),
                  ResyncRestart([c EXCEPT !.db = decode(cm.database),
                                          !.deploymentID = deployment.id],
                                cm, cmOk, ord).cm,
                  firstRun, deployment)

\* ------------------------------------------------------------------ inputs
Workloads == {WorkloadSeq[i] : i \in 1..Len(WorkloadSeq)}

SubnetNames == {SubnetSeq[i] : i \in 1..Len(SubnetSeq)}

VlanLists == {<<1>>}

NodeNames == {NodeSeq[i] : i \in 1..Len(NodeSeq)}

Nic(name) == [name |-> name, mac |-> name]

\* the topology of a node with one bond
BondNode(mode, ports) ==
    [Bonds |-> [b \in {"tenant-bond"} |->
                 [Mode |-> mode, MacAddress |-> "tenant-bond", Ports |-> [p \in ports |-> Nic(p)]]],
     SriovPools |-> EmptyMap]

NodesInfos == {EmptyMap, [n \in {"n1"} |-> BondNode("active-backup", {"eth0"})]}

AttachTypes == {"CreateAttach", "NodeAttach"}

DetachTypes == {"DeleteDetach", "UpdateDetach", "NodeDetach"}

\* Detach reads the nodes of a NodeDetach only
DetachNodesInfos(requestType) ==
    IF requestType = "NodeDetach" THEN NodesInfos \ {EmptyMap} ELSE {EmptyMap}

\* the orders in which range may visit the keys of a map with these keys
Orders(keys) ==
    {n \o <<"tenant-bond", "eth0", "eth1">> :
        n \in IF {"n1", "n2"} \subseteq keys THEN {<<"n1", "n2">>, <<"n2", "n1">>}
              ELSE {<<"n1", "n2">>}}

\* the outcomes of the first MaxCalls REST calls of an operation, at most n
\* of them failures
Outcomes(n) ==
    {o \in [1..MaxCalls -> {"ok", "status", "err"}] :
        Cardinality({i \in 1..MaxCalls : o[i] # "ok"}) <= n}

\* the failures among the outcomes, and those the calls in log l met
Failures(outs) == Cardinality({i \in 1..Len(outs) : outs[i] # "ok"})

Met(outs, l) == Cardinality({i \in 1..Len(outs) : outs[i] # "ok" /\ i <= Len(l)})

\* --------------------------------------------------------------- datatypes
\* A string that the code takes apart (vlan_trunk, vlanRange, master) is the
\* sequence of its characters.
Digits == <<"0", "1", "2", "3", "4", "5", "6", "7", "8", "9">>

IsDigit(ch) == \E i \in 1..Len(Digits) : Digits[i] = ch

DigitValue(ch) == (CHOOSE i \in 1..Len(Digits) : Digits[i] = ch) - 1

\* regexp ^[0-9\,\-]*$
MatchesTrunk(s) == \A i \in 1..Len(s) : IsDigit(s[i]) \/ s[i] \in {",", "-"}

\* strings.Contains(s, ch) for a separator of one character
Contains(s, ch) == \E i \in 1..Len(s) : s[i] = ch

\* strings.Join(a, sep)
RECURSIVE Join(_, _)
Join(a, sep) ==
    IF a = <<>> THEN <<>>
    ELSE IF Len(a) = 1 THEN a[1]
    ELSE a[1] \o <<sep>> \o Join(Tail(a), sep)

\* strings.HasPrefix(s, prefix)
HasPrefix(s, prefix) == Len(s) >= Len(prefix) /\ SubSeq(s, 1, Len(prefix)) = prefix

\* strconv.Atoi(s) with its error dropped: 0 for the empty string and for a
\* string that is not a number
RECURSIVE AtoiDigits(_)
AtoiDigits(s) ==
    IF s = <<>> THEN 0
    ELSE 10 * AtoiDigits(SubSeq(s, 1, Len(s) - 1)) + DigitValue(s[Len(s)])

Atoi(s) == IF \A i \in 1..Len(s) : IsDigit(s[i]) THEN AtoiDigits(s) ELSE 0

\* sort.Ints(a)
RECURSIVE SortInts(_)
SortInts(a) ==
    IF a = <<>> THEN <<>>
    ELSE LET i == CHOOSE k \in 1..Len(a) : \A j \in 1..Len(a) : a[k] <= a[j]
         IN <<a[i]>> \o SortInts(SubSeq(a, 1, i - 1) \o SubSeq(a, i + 1, Len(a)))

TrunkFormatInvalid == "Trunk format is invalid"

\* GetVlanIds, one element of the trunk: a range min-max when it holds a
\* '-', a single id otherwise
VlanElement_StrictRange(v, result) ==
    IF Contains(v, "-")
    THEN LET n == Split(v, "-")
             min == Atoi(n[1])
             max == Atoi(n[2])
         IN IF Len(n) # 2 THEN [ids |-> result, err |-> TRUE]
            ELSE IF min = 0 \/ min >= max THEN [ids |-> result, err |-> TRUE]
            ELSE [ids |-> result \o [i \in 1..(max - min + 1) |-> min + i - 1], err |-> FALSE]
    ELSE [ids |-> result \o <<Atoi(v)>>, err |-> FALSE]

VlanElement(v, result) ==
    IF Contains(v, "-")
    THEN LET n == Split(v, "-")
             min == Atoi(n[1])
             max == Atoi(n[2])
         IN IF Len(n) # 2 THEN [ids |-> result, err |-> TRUE]
            ELSE IF min = 0 \/ min > max THEN [ids |-> result, err |-> TRUE]
            ELSE [ids |-> result \o [i \in 1..(max - min + 1) |-> min + i - 1], err |-> FALSE]
    ELSE [ids |-> result \o <<Atoi(v)>>, err |-> FALSE]

\* GetVlanIds, the loop over the elements
RECURSIVE VlanElements(_, _)
VlanElements(m, result) ==
    IF m = <<>> THEN [ids |-> result, err |-> "nil"]
    ELSE LET r == VlanElement(Head(m), result)
         IN IF r.err THEN [ids |-> r.ids, err |-> TrunkFormatInvalid]
            ELSE VlanElements(Tail(m), r.ids)

GetVlanIds(vlanTrunk) ==
    IF ~MatchesTrunk(vlanTrunk) THEN [ids |-> <<>>, err |-> TrunkFormatInvalid]
    ELSE VlanElements(Split(vlanTrunk, ","), <<>>)

\* the annotations of a NAD that the operator reads
SriovResourceKey == "k8s.v1.cni.cncf.io/resourceName"

NodeSelectorKey == "k8s.v1.cni.cncf.io/nodeSelector"

ExtProjectNameKey == "nokia.com/extProjectName"

ExtNetworkNameKey == "nokia.com/extNetworkName"

SriovOverlaysKey == "nokia.com/sriov-vf-vlan-trunk-overlays"

\* NetConf, and the NetConf that nothing was decoded into
NetConf(type, master, vlan, vlanTrunk) == [Type |-> type, Master |-> master, Vlan |-> vlan, VlanTrunk |-> vlanTrunk]

NoNetConf == NetConf("", <<>>, 0, <<>>)

\* A NAD is its Spec.Config and its annotations. The Config is a JSON text:
\* valid or not, with a "plugins" list or a single CNI configuration; confs
\* are the configurations as json.Unmarshal decodes them into NetConf. An
\* annotation is a string, but for the overlays, a JSON text of its own:
\* json is "" for the empty text, "malformed" for a text that does not
\* decode, "list" for one that decodes into overlays.
GetNetConf(n) ==
    LET typed == {i \in 1..Len(n.Config.confs) : n.Config.confs[i].Type \in {"ipvlan", "sriov"}}
    IN IF ~n.Config.valid THEN [netConf |-> NoNetConf, err |-> "read NAD config failed"]
       ELSE IF n.Config.plugins
       THEN [netConf |-> IF typed = {} THEN NoNetConf
                         ELSE n.Config.confs[CHOOSE i \in typed : \A j \in typed : i <= j],
             err |-> "nil"]
       ELSE [netConf |-> n.Config.confs[1], err |-> "nil"]

\* annotationsMap[key]: the zero value "" stands for a missing key
Anno(n, key) == IF key \in DOMAIN n.Annotations THEN n.Annotations[key] ELSE ""

\* ShouldTriggerTopoAction, the switch on the NAD type
NadTypeChecked(netConf, n) ==
    IF netConf.Type = "ipvlan"
    THEN IF netConf.Vlan < 1 \/ netConf.Vlan > 4095
         THEN "IPVLAN vlan field has invalid value"
         ELSE IF ~HasPrefix(netConf.Master, <<"t", "e", "n", "a", "n", "t">>)
                 /\ ~HasPrefix(netConf.Master, <<"p", "r", "o", "v", "i", "d", "e", "r">>)
         THEN "IPVLAN master field has invalid value"
         ELSE "nil"
    ELSE IF Anno(n, SriovResourceKey) = "" THEN "SRIOV NAD requires resource name"
    ELSE IF Len(netConf.VlanTrunk) > 0 THEN "nil"
    ELSE IF netConf.Vlan < 0 \/ netConf.Vlan > 4095 THEN "vlan value is out of bound"
    ELSE "nil"

\* reflect.DeepEqual of the two sorted lists of ids
OverlaysMatch(vlanIds, overlayVlanIds) == SortInts(vlanIds) = SortInts(overlayVlanIds)

\* ShouldTriggerTopoAction, the loop over the overlays and the comparison of
\* their joined ranges with the trunk
RECURSIVE OverlaysChecked(_, _, _)
OverlaysChecked(vlanIds, overlays, vlanRanges) ==
    IF overlays = <<>>
    THEN IF OverlaysMatch(vlanIds, GetVlanIds(Join(vlanRanges, ",")).ids) THEN "nil"
         ELSE "Different vlan ranges found in CNI and annotations"
    ELSE LET overlay == Head(overlays)
         IN IF ~({"extProjectName", "extNetworkName", "vlanRange"} \subseteq DOMAIN overlay)
            THEN "Invalid overlay value"
            ELSE IF GetVlanIds(overlay.vlanRange).err # "nil" THEN "Invalid vlan range"
            ELSE OverlaysChecked(vlanIds, Tail(overlays), Append(vlanRanges, overlay.vlanRange))

\* ShouldTriggerTopoAction, the overlay mode
CheckOverlays(netConf, n) ==
    LET v == GetVlanIds(netConf.VlanTrunk)
    IN IF v.err # "nil" THEN "Invalid vlan_trunk in CNI"
       ELSE IF SriovOverlaysKey \notin DOMAIN n.Annotations THEN "Missing overlays in annotations"
       ELSE IF n.Annotations[SriovOverlaysKey].json = "" THEN "Missing overlays in annotations"
       ELSE IF n.Annotations[SriovOverlaysKey].json = "malformed"
       THEN "Invalid overlays format in annotations"
       ELSE OverlaysChecked(v.ids, n.Annotations[SriovOverlaysKey].overlays, <<>>)

ShouldTriggerTopoAction(n) ==
    LET g == GetNetConf(n)
        netConf == g.netConf
        Ret(trigger, err) == [netConf |-> netConf, trigger |-> trigger, err |-> err]
        typeErr == NadTypeChecked(netConf, n)
        vlanMode == ~(netConf.Type = "sriov" /\ Len(netConf.VlanTrunk) > 0)
        overlayErr == CheckOverlays(netConf, n)
    IN IF g.err # "nil" THEN Ret(FALSE, g.err)
       ELSE IF netConf.Type \notin {"ipvlan", "sriov"} THEN Ret(FALSE, "nil")
       ELSE IF Anno(n, NodeSelectorKey) = "" THEN Ret(FALSE, "nil")
       ELSE IF typeErr # "nil" THEN Ret(FALSE, typeErr)
       ELSE IF vlanMode
       THEN IF Anno(n, ExtProjectNameKey) = "" THEN Ret(FALSE, "nil")
            ELSE IF Anno(n, ExtNetworkNameKey) = "" THEN Ret(FALSE, "nil")
            ELSE Ret(TRUE, "nil")
       ELSE IF overlayErr # "nil" THEN Ret(FALSE, overlayErr)
       ELSE Ret(TRUE, "nil")

\* ShouldTriggerTopoUpdate, the check that every id of the old trunk is an
\* id of the new one
TrunkGrows_Any(oldTrunk, newTrunk) == TRUE

TrunkGrows(oldTrunk, newTrunk) ==
    LET vlanRange1 == GetVlanIds(oldTrunk).ids
        vlanRange2 == GetVlanIds(newTrunk).ids
        checkset == {vlanRange2[i] : i \in 1..Len(vlanRange2)}
    IN \A i \in 1..Len(vlanRange1) : vlanRange1[i] \in checkset

\* the NadAction 0 is "none"
ShouldTriggerTopoUpdate(oldNad, newNad) ==
    LET o == ShouldTriggerTopoAction(oldNad)
        w == ShouldTriggerTopoAction(newNad)
        oldNetConf == o.netConf
        newNetConf == w.netConf
        trigger1 == o.trigger
        trigger2 == w.trigger
        Ret(action, err) == [action |-> action, netConf |-> newNetConf, err |-> err]
        vlanMode == ~(Len(oldNetConf.VlanTrunk) > 0)
        ns1 == Anno(oldNad, NodeSelectorKey)
        ns2 == Anno(newNad, NodeSelectorKey)
    IN IF w.err # "nil" THEN Ret("none", w.err)
       ELSE IF ~trigger1 /\ ~trigger2 THEN Ret("none", "nil")
       ELSE IF ~trigger1 /\ trigger2 THEN Ret("UpdateAttach", "nil")
       ELSE IF trigger1 /\ ~trigger2
       THEN Ret("none", "NAD change from FSS eligible to not eligble is not allowed")
       ELSE IF oldNetConf.Type # newNetConf.Type THEN Ret("none", "NAD type change is not allowed")
       ELSE IF oldNetConf.Vlan # newNetConf.Vlan THEN Ret("none", "NAD vlan change is not allowed")
       ELSE IF newNetConf.Type = "sriov"
               /\ Anno(oldNad, SriovResourceKey) # Anno(newNad, SriovResourceKey)
       THEN Ret("none", "SRIOV NAD resourceName change is not allowed")
       ELSE IF vlanMode /\ Anno(oldNad, ExtProjectNameKey) # Anno(newNad, ExtProjectNameKey)
       THEN Ret("none", "NAD project change is not allowed")
       ELSE IF vlanMode /\ Anno(oldNad, ExtNetworkNameKey) # Anno(newNad, ExtNetworkNameKey)
       THEN Ret("none", "NAD network change is not allowed")
       ELSE IF ~vlanMode /\ oldNetConf.VlanTrunk # newNetConf.VlanTrunk
               /\ ~TrunkGrows(oldNetConf.VlanTrunk, newNetConf.VlanTrunk)
       THEN Ret("none", "SRIOV NAD vlan_trunk range can only increase")
       ELSE IF ~vlanMode /\ oldNetConf.VlanTrunk # newNetConf.VlanTrunk
       THEN IF ns1 # ns2
            THEN Ret("none", "SRIOV NAD vlan_trunk range and nodeSelector are not allowed to change together")
            ELSE Ret("UpdateAttach", "nil")
       ELSE IF ns1 = ns2 THEN Ret("none", "nil")
       ELSE Ret("UpdateAttachDetach", "nil")

\* no call of the NAD classification
NoNad == [pc |-> "idle", fn |-> "none", args |-> <<>>, ret |-> <<>>]

\* FssClient before its first login: time.Time{} expiries, no tokens
NoToken == 0
NoTokens ==
    [now |-> 0, accessTokenExpiry |-> 0, refreshTokenExpiry |-> 0,
     loginResponse |-> [AccessToken |-> NoToken, RefreshToken |-> NoToken],
     requests |-> 0, calls |-> <<>>, status |-> 0, err |-> "nil"]

\* a node agent before its first call: an empty vlanMap, no links
NoVlans ==
    [vlanMap |-> EmptyMap, links |-> {}, others |-> {}, created |-> {}, calls |-> 0,
     fn |-> "none", nadName |-> <<>>, vlanIfName |-> <<>>, ret |-> 0, err |-> "nil",
     linkDel |-> FALSE]

\* ------------------------------------------------------------------- state
VARIABLES
    database,     \* FssClient.database, the in-memory mirror
    configmap,    \* the ConfigMap fss-database
    server,       \* the objects the FSS server holds
    deployment,   \* FssClient.deployment
    running,      \* whether the operator process is up
    log,          \* the REST calls of the last operation
    lastOp,       \* the last operation, its arguments and its result
    uncommitted,  \* ids POSTed and DELETEd since the mirror was last saved
    faults,       \* the failed REST calls and the crashes so far
    steps,        \* the steps taken so far
    boot,         \* where NewFssClient stands, its firstRun and f.plugin.ID
    write,        \* where setConfigMap stands
    nad,          \* the call of the NAD classification and what it returned
    tokens,       \* the clock, the token expiries of FssClient and its last request
    vlans         \* a node agent's vlanMap, the links of its node and its last call

vars == <<database, configmap, server, deployment, running, log, lastOp, uncommitted,
          faults, steps, boot, write, nad, tokens, vlans>>

\* the ids a mirror refers to
DbIds(db) ==
    DOMAIN db.tenants \cup {db.tenants[w].id : w \in DOMAIN db.tenants}
    \cup DOMAIN db.subnets \cup {db.subnets[x].id : x \in DOMAIN db.subnets}
    \cup {db.subnets[x].tenantId : x \in DOMAIN db.subnets}
    \cup DOMAIN db.hostPortLabels \cup UNION {Values(db.hostPortLabels[x]) : x \in DOMAIN db.hostPortLabels}
    \cup DOMAIN db.attachedLabels \cup UNION {Values(db.attachedLabels[x]) : x \in DOMAIN db.attachedLabels}
    \cup UNION {Values(db.hostPorts[n]) : n \in DOMAIN db.hostPorts}
    \cup DOMAIN db.attachedPorts
    \cup UNION {UNION {DOMAIN db.attachedPorts[l][i] \cup Values(db.attachedPorts[l][i]) :
                          i \in 1..Len(db.attachedPorts[l])} : l \in DOMAIN db.attachedPorts}
    \cup Values(db.workloadMapping)
    \cup DOMAIN db.subnetMapping \cup UNION {Values(db.subnetMapping[w]) : w \in DOMAIN db.subnetMapping}

\* the ids of the objects the server holds
SrvIds(srv) ==
    {o.id : o \in srv.tenants \cup srv.subnets \cup srv.hostportlabels \cup srv.hostports
                  \cup srv.hostportlabelhostportassociations
                  \cup srv.hostportlabelsubnetassociations
                  \cup srv.plugins \cup srv.deployments}

\* the ids some part of the state refers to
UsedIds ==
    DbIds(database) \cup DbIds(decode(configmap.database)) \cup SrvIds(server)
    \cup {log[i].id : i \in 1..Len(log)} \cup uncommitted.posted \cup uncommitted.deleted
    \cup lastOp.ids

Ctx(outs) == [db |-> database, srv |-> server, used |-> UsedIds, log |-> <<>>,
              outs |-> outs, deploymentID |-> deployment.id]

Posted(l) == {l[i].id : i \in {j \in 1..Len(l) : l[j].method = "POST" /\ l[j].status = 201}}

Deleted(l) == {l[i].id : i \in {j \in 1..Len(l) : l[j].method = "DELETE" /\ l[j].status = 204}}

NoUncommitted == [posted |-> {}, deleted |-> {}]

Op(op, args, err, ret, ids) == [op |-> op, args |-> args, err |-> err, ret |-> ret, ids |-> ids]

\* NewFssClient has returned the client
Booted == [pc |-> "up", firstRun |-> FALSE, plugin |-> NoId]

\* no setConfigMap is under way
NoWrite == [pc |-> "idle", name |-> "", data |-> "", i |-> 0, stale |-> FALSE,
            gets |-> 0, updates |-> 0, last |-> "none", err |-> "nil",
            fetched |-> EmptyData]

Init ==
    /\ database = EmptyDatabase
    /\ configmap = [database |-> encode(EmptyDatabase)]
    /\ server = EmptyServer
    /\ deployment = [id |-> 1, adminUp |-> TRUE]
    /\ running = TRUE
    /\ log = <<>>
    /\ lastOp = Op("NewFssClient", <<>>, "nil", <<>>, {})
    /\ uncommitted = NoUncommitted
    /\ faults = [fail |-> 0, crash |-> 0]
    /\ steps = 0
    /\ boot = Booted
    /\ write = NoWrite
    /\ nad = NoNad
    /\ tokens = NoTokens
    /\ vlans = NoVlans

\* one more step of a bounded behaviour of the facade, of the engine
Step == steps < MaxSteps /\ steps' = steps + 1

EngineStep == steps < MaxEngineSteps /\ steps' = steps + 1

PortStep == steps < MaxPortSteps /\ steps' = steps + 1

\* the effect of an operation of the running operator that ended in context
\* c: a panic kills the process, and with it the in-memory mirror
Effect_Saved(c, op, outs) ==
    /\ Overflow \notin c.used
    /\ Met(outs, c.log) = Failures(outs)
    /\ faults' = [faults EXCEPT !.fail = @ + Failures(outs)]
    /\ server' = c.srv
    /\ log' = c.log
    /\ lastOp' = op
    /\ uncommitted' = [posted |-> uncommitted.posted \cup Posted(c.log),
                       deleted |-> uncommitted.deleted \cup Deleted(c.log)]
    /\ running' = (op.err # "panic")
    /\ database' = IF op.err = "panic" THEN EmptyDatabase ELSE c.db
    /\ configmap' = [configmap EXCEPT !.database = encode(c.db)]
    /\ UNCHANGED <<deployment, boot, write, nad, tokens, vlans>>

Effect(c, op, outs) ==
    /\ Overflow \notin c.used
    /\ Met(outs, c.log) = Failures(outs)
    /\ faults' = [faults EXCEPT !.fail = @ + Failures(outs)]
    /\ server' = c.srv
    /\ log' = c.log
    /\ lastOp' = op
    /\ uncommitted' = [posted |-> uncommitted.posted \cup Posted(c.log),
                       deleted |-> uncommitted.deleted \cup Deleted(c.log)]
    /\ running' = (op.err # "panic")
    /\ database' = IF op.err = "panic" THEN EmptyDatabase ELSE c.db
    /\ UNCHANGED <<configmap, deployment, boot, write, nad, tokens, vlans>>

\* ------------------------------------------------------ facade operations
\* Attach or Detach returned r = [c, nodesStatus, err]
FacadeReturned(op, args, r, outs) == Effect(r.c, Op(op, args, r.err, r.nodesStatus, {}), outs)

DoAttach(w, s, vlanIDs, nodesInfo, requestType, ord, outs) ==
    /\ running
    /\ FacadeReturned("Attach", <<w, s, vlanIDs, DOMAIN nodesInfo, requestType>>,
                      Attach(Ctx(outs), w, s, vlanIDs, nodesInfo, requestType, ord), outs)

DoDetach(w, s, vlanIDs, nodesInfo, requestType, ord, outs) ==
    /\ running
    /\ FacadeReturned("Detach", <<w, s, vlanIDs, DOMAIN nodesInfo, requestType>>,
                      Detach(Ctx(outs), w, s, vlanIDs, nodesInfo, requestType, ord), outs)

DoDetachNode(nodeName, ord, outs) ==
    /\ running
    /\ Effect(DetachNode(Ctx(outs), nodeName, ord),
              Op("DetachNode", <<nodeName>>, "nil", <<>>, {}), outs)

\* TxnDone: the mirror is saved to the ConfigMap
DoTxnDone(cmOk) ==
    /\ running
    /\ configmap' = TxnDone(database, configmap, cmOk)
    /\ uncommitted' = IF cmOk THEN NoUncommitted ELSE uncommitted
    /\ log' = <<>>
    /\ lastOp' = Op("TxnDone", <<>>, "nil", cmOk, {})
    /\ UNCHANGED <<database, server, deployment, running, faults, boot, write, nad, tokens, vlans>>

\* The process is started again, after a panic or after it was killed (and
\* with it the in-memory mirror). NewFssClient on a restart whose plugin and
\* deployment are still valid: load the mirror from the ConfigMap and resync.
\* lastOp keeps what the dead process had POSTed and DELETEd and not saved.
Restarted(r, outs) ==
    /\ running' = TRUE
    /\ database' = r.c.db
    /\ configmap' = r.cm
    /\ server' = r.c.srv
    /\ log' = r.c.log
    /\ lastOp' = Op("Restart", <<uncommitted.posted, uncommitted.deleted>>, r.err,
                    r.phaseB, SrvIds(server))
    /\ Met(outs, r.c.log) = Failures(outs)
    /\ faults' = [fail |-> faults.fail + Failures(outs),
                  crash |-> faults.crash + (IF running THEN 1 ELSE 0)]
    /\ uncommitted' = NoUncommitted
    /\ UNCHANGED <<deployment, boot, write, nad, tokens, vlans>>

Restart(cmOk, ord, outs) ==
    /\ running => faults.crash < MaxCrash
    /\ Restarted(ResyncRestart([Ctx(outs) EXCEPT !.db = decode(configmap.database)],
                               configmap, cmOk, ord), outs)

Next ==
    \/ \E w \in Workloads, s \in SubnetNames, vlanIDs \in VlanLists, nodesInfo \in NodesInfos,
          requestType \in AttachTypes, outs \in Outcomes(MaxFail - faults.fail) :
          \E ord \in Orders(DOMAIN nodesInfo) :
              Step /\ DoAttach(w, s, vlanIDs, nodesInfo, requestType, ord, outs)
    \/ \E w \in Workloads, s \in SubnetNames, vlanIDs \in VlanLists,
          requestType \in DetachTypes, outs \in Outcomes(MaxFail - faults.fail) :
          \E nodesInfo \in DetachNodesInfos(requestType), ord \in Orders(NodeNames) :
              Step /\ DoDetach(w, s, vlanIDs, nodesInfo, requestType, ord, outs)
    \/ \E nodeName \in NodeNames, outs \in Outcomes(MaxFail - faults.fail) :
          Step /\ DoDetachNode(nodeName, PortSeq, outs)
    \/ Step /\ DoTxnDone(TRUE)
    \/ \E outs \in Outcomes(MaxFail - faults.fail) : Step /\ Restart(TRUE, NodeSeq \o PortSeq, outs)

Spec == Init /\ [][Next]_vars

\* ------------------------------------------------------ engine operations
\* the subnet interfaces the engine is asked for
Interfaces == {<<"projA", "subX", 1>>, <<"projA", "subX", 2>>, <<"projA", "subY", 1>>}

\* CreateSubnetInterface returned r
InterfaceReturned(args, r, outs) ==
    Effect(r.c, Op("CreateSubnetInterface", args, r.err,
                   <<r.fssSubnetID, r.hostPortLabelID>>, {}), outs)

DoCreateSubnetInterface(w, s, vlanID, outs) ==
    /\ running
    /\ InterfaceReturned(<<w, s, vlanID>>, CreateSubnetInterface(Ctx(outs), w, s, vlanID), outs)

\* an operation of the engine that returns an error only returned r
EngineReturned(op, args, r, ret, outs) == Effect(r.c, Op(op, args, r.err, ret, {}), outs)

\* AttachSubnetInterface, DeleteSubnetInterface: called as the facade calls
\* them, with the ids GetSubnetInterface returns for an interface that exists
AttachFound(g, w, s, vlanID, outs) ==
    /\ g.exists
    /\ EngineReturned("AttachSubnetInterface", <<w, s, vlanID>>,
                      AttachSubnetInterface(Ctx(outs), g.fssSubnetID, vlanID, g.hostPortLabelID),
                      <<g.fssSubnetID, g.hostPortLabelID>>, outs)

DoAttachSubnetInterface(w, s, vlanID, outs) ==
    /\ running
    /\ AttachFound(GetSubnetInterface(Ctx(outs), w, s, vlanID), w, s, vlanID, outs)

DeleteFound(g, w, s, vlanID, requestType, outs) ==
    /\ g.exists
    /\ EngineReturned("DeleteSubnetInterface", <<w, s, vlanID, requestType>>,
                      DeleteSubnetInterface(Ctx(outs), g.fssWorkloadEvpnID, g.fssSubnetID,
                                            vlanID, g.hostPortLabelID, requestType),
                      <<g.fssWorkloadEvpnID, g.fssSubnetID, g.hostPortLabelID>>, outs)

DoDeleteSubnetInterface(w, s, vlanID, requestType, outs) ==
    /\ running
    /\ DeleteFound(GetSubnetInterface(Ctx(outs), w, s, vlanID), w, s, vlanID, requestType, outs)

NextEngine ==
    \/ \E i \in Interfaces, outs \in Outcomes(MaxFail - faults.fail) :
          EngineStep /\ DoCreateSubnetInterface(i[1], i[2], i[3], outs)
    \/ \E i \in Interfaces, outs \in Outcomes(MaxFail - faults.fail) :
          EngineStep /\ DoAttachSubnetInterface(i[1], i[2], i[3], outs)
    \/ \E i \in Interfaces, requestType \in {"DeleteDetach", "UpdateDetach"},
          outs \in Outcomes(MaxFail - faults.fail) :
          EngineStep /\ DoDeleteSubnetInterface(i[1], i[2], i[3], requestType, outs)
    \/ EngineStep /\ DoTxnDone(TRUE)
    \/ \E outs \in Outcomes(MaxFail - faults.fail) :
          EngineStep /\ Restart(TRUE, NodeSeq \o PortSeq, outs)

SpecEngine == Init /\ [][NextEngine]_vars

\* --------------------------------------------------- host-port operations
\* the ports the engine is asked for, and the interface whose label they
\* are attached to
PortNics == {Nic("eth0"), Nic("eth1")}

PortInterface == <<"projA", "subX", 1>>

\* CreateHostPort returned r
HostPortReturned(args, r, outs) ==
    Effect(r.c, Op("CreateHostPort", args, r.err, r.hostPortID, {}), outs)

DoCreateHostPort(node, port, outs) ==
    /\ running
    /\ HostPortReturned(<<node, port.name>>,
                        CreateHostPort(Ctx(outs), node, port, FALSE, NoId), outs)

\* AttachHostPort, DetachHostPort: called as the facade calls them, with the
\* label of an interface that exists
AttachPortFound(g, node, port, outs) ==
    /\ g.exists
    /\ EngineReturned("AttachHostPort", <<g.hostPortLabelID, node, port.name>>,
                      AttachHostPort(Ctx(outs), g.hostPortLabelID, node, port), <<>>, outs)

DoAttachHostPort(i, node, port, outs) ==
    /\ running
    /\ AttachPortFound(GetSubnetInterface(Ctx(outs), i[1], i[2], i[3]), node, port, outs)

DetachPortFound(g, node, port, outs) ==
    /\ g.exists
    /\ EngineReturned("DetachHostPort", <<g.hostPortLabelID, node, port.name>>,
                      DetachHostPort(Ctx(outs), g.hostPortLabelID, node, port), <<>>, outs)

DoDetachHostPort(i, node, port, outs) ==
    /\ running
    /\ DetachPortFound(GetSubnetInterface(Ctx(outs), i[1], i[2], i[3]), node, port, outs)

NextPorts ==
    \/ \E outs \in Outcomes(MaxFail - faults.fail) :
          PortStep /\ DoCreateSubnetInterface(PortInterface[1], PortInterface[2],
                                              PortInterface[3], outs)
    \/ \E node \in NodeNames, port \in PortNics, outs \in Outcomes(MaxFail - faults.fail) :
          PortStep /\ DoCreateHostPort(node, port, outs)
    \/ \E node \in NodeNames, port \in PortNics, outs \in Outcomes(MaxFail - faults.fail) :
          PortStep /\ DoAttachHostPort(PortInterface, node, port, outs)
    \/ \E node \in NodeNames, port \in PortNics, outs \in Outcomes(MaxFail - faults.fail) :
          PortStep /\ DoDetachHostPort(PortInterface, node, port, outs)
    \/ PortStep /\ DoTxnDone(TRUE)
    \/ \E outs \in Outcomes(MaxFail - faults.fail) :
          PortStep /\ Restart(TRUE, NodeSeq \o PortSeq, outs)

SpecPorts == Init /\ [][NextPorts]_vars

\* ------------------------------------------------------- every operation
\* The operations of the engine and of the facade side by side, on one
\* interface and one node, and TxnDone.
\* GetSubnetInterface reads the mirror and sends nothing
DoGetSubnetInterface(w, s, vlanID) ==
    /\ running
    /\ EngineReturned("GetSubnetInterface", <<w, s, vlanID>>, [c |-> Ctx(<<>>), err |-> "nil"],
                      GetSubnetInterface(Ctx(<<>>), w, s, vlanID), <<>>)

FrameStep == steps < MaxFrameSteps /\ steps' = steps + 1

FrameNodesInfos == {[n \in {"n1"} |-> BondNode("active-backup", {"eth0"})]}

NextFrame ==
    \/ \E outs \in Outcomes(MaxFail - faults.fail) :
          FrameStep /\ DoCreateSubnetInterface(PortInterface[1], PortInterface[2],
                                               PortInterface[3], outs)
    \/ \E outs \in Outcomes(MaxFail - faults.fail) :
          FrameStep /\ DoAttachSubnetInterface(PortInterface[1], PortInterface[2],
                                               PortInterface[3], outs)
    \/ \E i \in Interfaces : FrameStep /\ DoGetSubnetInterface(i[1], i[2], i[3])
    \/ \E outs \in Outcomes(MaxFail - faults.fail) :
          FrameStep /\ DoCreateHostPort("n1", Nic("eth0"), outs)
    \/ \E outs \in Outcomes(MaxFail - faults.fail) :
          FrameStep /\ DoAttachHostPort(PortInterface, "n1", Nic("eth0"), outs)
    \/ \E outs \in Outcomes(MaxFail - faults.fail) :
          FrameStep /\ DoDetachHostPort(PortInterface, "n1", Nic("eth0"), outs)
    \/ \E requestType \in {"DeleteDetach", "UpdateDetach"}, outs \in Outcomes(MaxFail - faults.fail) :
          FrameStep /\ DoDeleteSubnetInterface(PortInterface[1], PortInterface[2],
                                               PortInterface[3], requestType, outs)
    \/ \E outs \in Outcomes(MaxFail - faults.fail) :
          FrameStep /\ DoDetachNode("n1", PortSeq, outs)
    \/ \E nodesInfo \in FrameNodesInfos, requestType \in AttachTypes,
          outs \in Outcomes(MaxFail - faults.fail) :
          \E ord \in Orders(DOMAIN nodesInfo) :
              FrameStep /\ DoAttach(PortInterface[1], PortInterface[2], <<PortInterface[3]>>,
                                    nodesInfo, requestType, ord, outs)
    \/ \E requestType \in DetachTypes, outs \in Outcomes(MaxFail - faults.fail) :
          \E nodesInfo \in DetachNodesInfos(requestType), ord \in Orders(NodeNames) :
              FrameStep /\ DoDetach(PortInterface[1], PortInterface[2], <<PortInterface[3]>>,
                                    nodesInfo, requestType, ord, outs)
    \/ FrameStep /\ DoTxnDone(TRUE)

SpecFrame == Init /\ [][NextFrame]_vars

\* ------------------------------------------- facade operations, in ranges
\* Attach of a range of vlans to a node with an 802.3ad bond of two ports,
\* and DetachNode; the range statements visit the names in one of RangeOrders
RangeLists == {<<1>>, <<1, 2>>}

LagNodesInfos == {[n \in {"n1"} |-> BondNode("802.3ad", {"eth0", "eth1"})]}

RangeOrders ==
    {<<"n1", "tenant-bond", "eth0", "eth1">>, <<"n1", "eth1", "eth0", "tenant-bond">>,
     <<"n1", "eth0", "tenant-bond", "eth1">>}

RangeStep == steps < MaxRangeSteps /\ steps' = steps + 1

NextRange ==
    \/ \E vlanIDs \in RangeLists, nodesInfo \in LagNodesInfos, requestType \in AttachTypes,
          ord \in RangeOrders, outs \in Outcomes(MaxFail - faults.fail) :
          RangeStep /\ DoAttach("projA", "subX", vlanIDs, nodesInfo, requestType, ord, outs)
    \/ \E nodeName \in NodeNames, ord \in RangeOrders, outs \in Outcomes(MaxFail - faults.fail) :
          RangeStep /\ DoDetachNode(nodeName, ord, outs)
    \/ RangeStep /\ DoTxnDone(TRUE)

SpecRange == Init /\ [][NextRange]_vars

\* ------------------------------------------------------- nodes and ports
\* Attach and Detach of one vlan on two nodes: n1 with an active-backup bond
\* of two ports, n2 with an SR-IOV pool of one port; TxnDone with a ConfigMap
\* that setConfigMap can or cannot write
PoolNode(pool, ports) ==
    [Bonds |-> EmptyMap, SriovPools |-> [k \in {pool} |-> [p \in ports |-> Nic(p)]]]

NodesTopology ==
    [n \in {"n1", "n2"} |->
        IF n = "n1" THEN BondNode("active-backup", {"eth0", "eth1"})
        ELSE PoolNode("pool1", {"eth0"})]

TwoNodesInfos == {[n \in ns |-> NodesTopology[n]] : ns \in {{"n1"}, {"n2"}, {"n1", "n2"}}}

NodeOrders ==
    {<<"n1", "n2", "tenant-bond", "pool1", "eth0", "eth1">>,
     <<"n2", "n1", "tenant-bond", "pool1", "eth1", "eth0">>}

NodeAttachTypes == {"CreateAttach", "NodeAttach"}

NodeDetachTypes == {"NodeDetach", "DeleteDetach"}

NodesStep == steps < MaxNodesSteps /\ steps' = steps + 1

NextNodes ==
    \/ \E vlanIDs \in RangeLists, nodesInfo \in TwoNodesInfos, requestType \in NodeAttachTypes,
          ord \in NodeOrders, outs \in Outcomes(MaxFail - faults.fail) :
          NodesStep /\ DoAttach("projA", "subX", vlanIDs, nodesInfo, requestType, ord, outs)
    \/ \E nodesInfo \in TwoNodesInfos, requestType \in NodeDetachTypes, ord \in NodeOrders,
          outs \in Outcomes(MaxFail - faults.fail) :
          NodesStep /\ DoDetach("projA", "subX", <<1>>, nodesInfo, requestType, ord, outs)
    \/ \E cmOk \in BOOLEAN : NodesStep /\ DoTxnDone(cmOk)

SpecNodes == Init /\ [][NextNodes]_vars

\* ------------------------------------------------------ NAD classification
\* GetVlanIds, ShouldTriggerTopoAction and ShouldTriggerTopoUpdate are
\* called once on an input: nad is the call, and then what it returned.
TrunkChars == {"0", "1", "2", ",", "-", "x"}

Example1 == <<"5", "0", ",", "5", "1", ",", "7", "0", "0", "-", "7", "0", "2">>

Example2 == <<"0", "-", "1", "0", ",", "5">>

TrunkInputs == UNION {[1..k -> TrunkChars] : k \in 0..MaxTrunkLen} \cup {Example1, Example2}

Bare(conf) == [valid |-> TRUE, plugins |-> FALSE, confs |-> <<conf>>]

Overlay(vlanRange) == [extProjectName |-> "projA", extNetworkName |-> "subX", vlanRange |-> vlanRange]

Overlays(vlanRanges) == [json |-> "list", overlays |-> [i \in 1..Len(vlanRanges) |-> Overlay(vlanRanges[i])]]

NoOverlays == [json |-> "absent", overlays |-> <<>>]

\* the annotations, "absent" for an annotation the NAD does not have
Annotated(ns, resource, project, network, overlays) ==
    LET vals == [k \in {NodeSelectorKey, SriovResourceKey, ExtProjectNameKey, ExtNetworkNameKey} |->
                    IF k = NodeSelectorKey THEN ns
                    ELSE IF k = SriovResourceKey THEN resource
                    ELSE IF k = ExtProjectNameKey THEN project
                    ELSE network]
        keys == {k \in DOMAIN vals : vals[k] # "absent"}
                   \cup (IF overlays.json = "absent" THEN {} ELSE {SriovOverlaysKey})
    IN [k \in keys |-> IF k = SriovOverlaysKey THEN overlays ELSE vals[k]]

Sriov(vlan, vlanTrunk, ns, resource, project, network, overlays) == [Config |-> Bare(NetConf("sriov", <<>>, vlan, vlanTrunk)), Annotations |-> Annotated(ns, resource, project, network, overlays)]

Ipvlan(vlan, master, ns) == [Config |-> Bare(NetConf("ipvlan", master, vlan, <<>>)), Annotations |-> Annotated(ns, "absent", "projA", "subX", NoOverlays)]

NadTrunks == {<<>>, <<"1">>, <<"1", ",", "1">>, <<"1", ",", "2">>, <<"2", ",", "1">>}

OverlayRanges == {<<"1">>, <<"2">>}

OverlayLists == {NoOverlays} \cup {Overlays(rs) : rs \in UNION {[1..k -> OverlayRanges] : k \in 0..MaxOverlays}}

SriovNads ==
    {Sriov(0, t, ns, "pool1", scope, IF scope = "absent" THEN "absent" ELSE "subX", ov) :
        t \in NadTrunks, ns \in {"absent", "a", "b"}, scope \in {"absent", "projA"},
        ov \in OverlayLists}

Trunk1020 == <<"1", "0", ",", "2", "0">>

Trunk102030 == <<"1", "0", ",", "2", "0", ",", "3", "0">>

TenantBond == <<"t", "e", "n", "a", "n", "t", "-", "b", "o", "n", "d">>

MoreNads ==
    {Sriov(0, <<>>, "a", "pool2", "projA", "subX", NoOverlays),
     Sriov(0, <<>>, "a", "absent", "projA", "subX", NoOverlays),
     Sriov(0, <<>>, "a", "pool1", "projB", "subX", NoOverlays),
     Sriov(0, <<>>, "a", "pool1", "projA", "absent", NoOverlays),
     Sriov(0, <<>>, "", "pool1", "projA", "subX", NoOverlays),
     Sriov(1, <<>>, "a", "pool1", "projA", "subX", NoOverlays),
     Sriov(5000, <<>>, "a", "pool1", "projA", "subX", NoOverlays),
     Sriov(0, <<"0">>, "a", "pool1", "absent", "absent", Overlays(<<>>)),
     Sriov(0, <<"1", "-", "2">>, "a", "pool1", "absent", "absent", Overlays(<<<<"1">>, <<"2">>>>)),
     Sriov(0, <<"x">>, "a", "pool1", "absent", "absent", Overlays(<<<<"1">>>>)),
     Sriov(0, <<"1">>, "a", "pool1", "absent", "absent", Overlays(<<<<"x">>>>)),
     Sriov(0, <<"1">>, "a", "pool1", "absent", "absent", [json |-> "", overlays |-> <<>>]),
     Sriov(0, <<"1">>, "a", "pool1", "absent", "absent", [json |-> "malformed", overlays |-> <<>>]),
     Sriov(0, <<"1">>, "a", "pool1", "absent", "absent",
           [json |-> "list", overlays |-> <<[extProjectName |-> "projA", vlanRange |-> <<"1">>]>>]),
     Sriov(0, Trunk1020, "a", "pool1", "absent", "absent", Overlays(<<Trunk1020>>)),
     Sriov(0, Trunk102030, "a", "pool1", "absent", "absent", Overlays(<<Trunk1020, <<"3", "0">>>>)),
     Sriov(0, Trunk102030, "b", "pool1", "absent", "absent", Overlays(<<Trunk1020, <<"3", "0">>>>)),
     Ipvlan(1, TenantBond, "a"),
     Ipvlan(1, TenantBond, "b"),
     Ipvlan(0, TenantBond, "a"),
     Ipvlan(1, <<"e", "t", "h", "0">>, "a"),
     [Config |-> Bare(NetConf("macvlan", <<>>, 1, <<>>)),
      Annotations |-> Annotated("a", "absent", "projA", "subX", NoOverlays)],
     [Config |-> [valid |-> FALSE, plugins |-> FALSE, confs |-> <<>>],
      Annotations |-> Annotated("a", "absent", "projA", "subX", NoOverlays)],
     [Config |-> [valid |-> TRUE, plugins |-> TRUE,
                  confs |-> <<NetConf("tuning", <<>>, 0, <<>>), NetConf("ipvlan", TenantBond, 1, <<>>)>>],
      Annotations |-> Annotated("a", "absent", "projA", "subX", NoOverlays)]}

NadInputs == SriovNads \cup MoreNads

NadCall(fn, args) == [pc |-> "call", fn |-> fn, args |-> args, ret |-> <<>>]

DoGetVlanIds ==
    /\ nad.pc = "call"
    /\ nad.fn = "GetVlanIds"
    /\ nad' = [nad EXCEPT !.pc = "done", !.ret = GetVlanIds(nad.args[1])]
    /\ UNCHANGED <<database, configmap, server, deployment, running, log, lastOp, uncommitted,
                   faults, steps, boot, write, tokens, vlans>>

DoShouldTriggerTopoAction ==
    /\ nad.pc = "call"
    /\ nad.fn = "ShouldTriggerTopoAction"
    /\ nad' = [nad EXCEPT !.pc = "done", !.ret = ShouldTriggerTopoAction(nad.args[1])]
    /\ UNCHANGED <<database, configmap, server, deployment, running, log, lastOp, uncommitted,
                   faults, steps, boot, write, tokens, vlans>>

DoShouldTriggerTopoUpdate ==
    /\ nad.pc = "call"
    /\ nad.fn = "ShouldTriggerTopoUpdate"
    /\ nad' = [nad EXCEPT !.pc = "done", !.ret = ShouldTriggerTopoUpdate(nad.args[1], nad.args[2])]
    /\ UNCHANGED <<database, configmap, server, deployment, running, log, lastOp, uncommitted,
                   faults, steps, boot, write, tokens, vlans>>

InitNad ==
    /\ database = EmptyDatabase
    /\ configmap = [database |-> encode(EmptyDatabase)]
    /\ server = EmptyServer
    /\ deployment = [id |-> 1, adminUp |-> TRUE]
    /\ running = TRUE
    /\ log = <<>>
    /\ lastOp = Op("NewFssClient", <<>>, "nil", <<>>, {})
    /\ uncommitted = NoUncommitted
    /\ faults = [fail |-> 0, crash |-> 0]
    /\ steps = 0
    /\ boot = Booted
    /\ write = NoWrite
    /\ nad \in {NadCall("GetVlanIds", <<r>>) : r \in TrunkInputs}
               \cup {NadCall("ShouldTriggerTopoAction", <<n>>) : n \in NadInputs}
               \cup {NadCall("ShouldTriggerTopoUpdate", <<o, n>>) : o \in NadInputs, n \in NadInputs}
    /\ tokens = NoTokens
    /\ vlans = NoVlans

NextNad ==
    \/ DoGetVlanIds
    \/ DoShouldTriggerTopoAction
    \/ DoShouldTriggerTopoUpdate

SpecNad == InitNad /\ [][NextNad]_vars

\* --------------------------------------------------------------- start-up
\* The operator process from its start: NewFssClient registers, waits for
\* adminUp and resyncs. The setConfigMap calls of the registration succeed;
\* the one of TxnDone may fail.
\* f = [c, cm, deployment, firstRun, plugin, pc, err, resync] is how
\* NewFssClient stands: pc "down" when it returned an error or panicked,
\* "wait" in the wait for adminUp, "up" when it returned the client.
Standing(c, cm, dep, firstRun, plugin, pc, err, resync) ==
    [c |-> c, cm |-> cm, deployment |-> dep, firstRun |-> firstRun,
     plugin |-> plugin, pc |-> pc, err |-> err, resync |-> resync]

\* Resync returned r = [c, cm, err, firstRun, deployment]: its error is
\* logged and the client returned, unless it panicked
Finished(r, plugin) ==
    Standing(r.c, r.cm, r.deployment, r.firstRun, plugin,
             IF r.err = "panic" THEN "down" ELSE "up",
             IF r.err = "panic" THEN "panic" ELSE "nil", r.err)

\* the registration ended as b
Registered(b, cmOk, ord) ==
    IF b.err # "nil"
    THEN Standing(b.c, b.cm, b.deployment, b.firstRun, b.plugin, "down", b.err, "none")
    ELSE IF ~b.deployment.adminUp
    THEN Standing(b.c, b.cm, b.deployment, b.firstRun, b.plugin, "wait", "nil", "none")
    ELSE Finished(Finish(b.c, b.cm, b.firstRun, b.deployment, cmOk, ord), b.plugin)

\* the wait for adminUp, after GET deployments/{id} answered g
Polled(g, cm, firstRun, plugin, old, cmOk, ord) ==
    IF g.err THEN Standing(g.c, cm, old, firstRun, plugin, "down", "transport", "none")
    ELSE IF g.status # 200
    THEN Standing(g.c, cm, old, firstRun, plugin, "down", "status", "none")
    ELSE IF \E d \in g.body : d.adminUp
    THEN Finished(Finish(g.c, [cm EXCEPT !.deployment = CHOOSE d \in g.body : TRUE],
                         firstRun, CHOOSE d \in g.body : TRUE, cmOk, ord), plugin)
    ELSE Standing(g.c, cm, CHOOSE d \in g.body : TRUE, firstRun, plugin, "wait", "nil", "none")

\* NewFssClient stands as f after the step op
Stands(f, op, outs) ==
    /\ Overflow \notin f.c.used
    /\ Met(outs, f.c.log) = Failures(outs)
    /\ faults' = [faults EXCEPT !.fail = @ + Failures(outs)]
    /\ server' = f.c.srv
    /\ log' = f.c.log
    /\ lastOp' = Op(op, <<IF f.resync # "none" THEN "resync"
                          ELSE IF f.pc = "wait" THEN "wait" ELSE "registration">>,
                    f.err, f.resync, {})
    /\ boot' = [pc |-> f.pc, firstRun |-> f.firstRun, plugin |-> f.plugin]
    /\ running' = (f.pc = "up")
    /\ database' = IF f.pc = "up" THEN f.c.db ELSE EmptyDatabase
    /\ configmap' = f.cm
    /\ deployment' = f.deployment
    /\ uncommitted' = NoUncommitted
    /\ UNCHANGED <<write, nad, tokens, vlans>>

\* the process is started, for the first time or after it died or was killed
DoNewFssClient(cmOk, ord, outs) ==
    Stands(Registered(Register(Ctx(outs), configmap), cmOk, ord), "NewFssClient", outs)

\* one round of the wait for adminUp
DoPoll(cmOk, ord, outs) ==
    /\ boot.pc = "wait"
    /\ Stands(Polled(GETOne(Ctx(outs), "deployments", deployment.id), configmap,
                     boot.firstRun, boot.plugin, deployment, cmOk, ord), "Poll", outs)

\* the administrator of the fabric sets adminUp of a deployment
AdminSets(id, up) ==
    /\ \E d \in server.deployments : d.id = id /\ d.adminUp # up
    /\ server' = [server EXCEPT !.deployments =
                      {IF d.id = id THEN [d EXCEPT !.adminUp = up] ELSE d : d \in @}]
    /\ log' = <<>>
    /\ lastOp' = Op("AdminSets", <<id, up>>, "nil", <<>>, {})
    /\ UNCHANGED <<database, configmap, deployment, running, uncommitted, faults, boot, write, nad, tokens, vlans>>

\* the ConfigMap fss-database is deleted while the process is down
ConfigMapDeleted ==
    /\ boot.pc = "down"
    /\ configmap.exists
    /\ configmap' = NoConfigMap
    /\ log' = <<>>
    /\ lastOp' = Op("ConfigMapDeleted", <<>>, "nil", <<>>, {})
    /\ UNCHANGED <<database, server, deployment, running, uncommitted, faults, boot, write, nad, tokens, vlans>>

\* the process is killed
Killed ==
    /\ boot.pc # "down"
    /\ boot' = [boot EXCEPT !.pc = "down"]
    /\ running' = FALSE
    /\ database' = EmptyDatabase
    /\ log' = <<>>
    /\ lastOp' = Op("Killed", <<>>, "nil", <<>>, {})
    /\ UNCHANGED <<configmap, server, deployment, uncommitted, faults, write, nad, tokens, vlans>>

BootStep == steps < MaxBootSteps /\ steps' = steps + 1

BootNodesInfos == {[n \in {"n1"} |-> BondNode("802.3ad", {"eth0", "eth1"})]}

BootOrders == {<<"n1", "tenant-bond", "eth0", "eth1">>}

InitBoot ==
    /\ database = EmptyDatabase
    /\ configmap = NoConfigMap
    /\ server = EmptyServer
    /\ deployment = NoDeployment
    /\ running = FALSE
    /\ log = <<>>
    /\ lastOp = Op("none", <<>>, "nil", <<>>, {})
    /\ uncommitted = NoUncommitted
    /\ faults = [fail |-> 0, crash |-> 0]
    /\ steps = 0
    /\ boot = [pc |-> "down", firstRun |-> FALSE, plugin |-> NoId]
    /\ write = NoWrite
    /\ nad = NoNad
    /\ tokens = NoTokens
    /\ vlans = NoVlans

NextBoot ==
    \/ \E cmOk \in BOOLEAN, ord \in BootOrders, outs \in Outcomes(MaxFail - faults.fail) :
          BootStep /\ boot.pc = "down" /\ DoNewFssClient(cmOk, ord, outs)
    \/ \E cmOk \in BOOLEAN, ord \in BootOrders, outs \in Outcomes(MaxFail - faults.fail) :
          BootStep /\ DoPoll(cmOk, ord, outs)
    \/ \E d \in server.deployments, up \in BOOLEAN : BootStep /\ AdminSets(d.id, up)
    \/ BootStep /\ ConfigMapDeleted
    \/ BootStep /\ Killed
    \/ \E nodesInfo \in BootNodesInfos, ord \in BootOrders, outs \in Outcomes(MaxFail - faults.fail) :
          BootStep /\ DoAttach("projA", "subX", <<1>>, nodesInfo, "CreateAttach", ord, outs)
    \/ BootStep /\ DoTxnDone(TRUE)

SpecBoot == InitBoot /\ [][NextBoot]_vars

\* ------------------------------------------------------ ConfigMap writes
\* setConfigMap, one call of the client library at a time, next to another
\* writer of the ConfigMap. The ConfigMap is its Data here.
WriteNames == {"deployment", "database"}

WriteData == {"x"}

OtherData == {"p", "q"}

\* setConfigMap(name, data) is called
SetConfigMapCalled(name, data) ==
    /\ write.pc \in {"idle", "done"}
    /\ write.err # "panic"
    /\ write' = [NoWrite EXCEPT !.pc = "get", !.name = name, !.data = data]
    /\ UNCHANGED <<database, configmap, server, deployment, running, log, lastOp, uncommitted,
                   faults, steps, boot, nad, tokens, vlans>>

\* ConfigMaps.Get and the assignment to Data[name]
ConfigMapGot(ok) ==
    /\ write.pc = "get"
    /\ write' = Fetched(write, configmap, ok)
    /\ UNCHANGED <<database, configmap, server, deployment, running, log, lastOp, uncommitted,
                   faults, steps, boot, nad, tokens, vlans>>

\* ConfigMaps.Update: a conflict when the ConfigMap was written since the
\* Get, and else the fetched ConfigMap is stored, unless the call fails
ConfigMapUpdated(out) ==
    /\ write.pc = "update"
    /\ out = "ok" => ~write.stale
    /\ out = "conflict" => write.stale
    /\ write' = Updated(write, out)
    /\ configmap' = IF out = "ok" THEN write.fetched ELSE configmap
    /\ UNCHANGED <<database, server, deployment, running, log, lastOp, uncommitted,
                   faults, steps, boot, nad, tokens, vlans>>

\* another client writes the ConfigMap
OtherWrite(data) ==
    /\ configmap.plugin # data
    /\ configmap' = [configmap EXCEPT !.plugin = data]
    /\ write' = [write EXCEPT !.stale = (write.pc = "update")]
    /\ UNCHANGED <<database, server, deployment, running, log, lastOp, uncommitted,
                   faults, steps, boot, nad, tokens, vlans>>

InitWrite ==
    /\ database = EmptyDatabase
    /\ configmap = EmptyData
    /\ server = EmptyServer
    /\ deployment = NoDeployment
    /\ running = TRUE
    /\ log = <<>>
    /\ lastOp = Op("none", <<>>, "nil", <<>>, {})
    /\ uncommitted = NoUncommitted
    /\ faults = [fail |-> 0, crash |-> 0]
    /\ steps = 0
    /\ boot = Booted
    /\ write = NoWrite
    /\ nad = NoNad
    /\ tokens = NoTokens
    /\ vlans = NoVlans

NextWrite ==
    \/ \E name \in WriteNames, data \in WriteData : SetConfigMapCalled(name, data)
    \/ \E ok \in BOOLEAN : ConfigMapGot(ok)
    \/ \E out \in {"ok", "conflict", "error"} : ConfigMapUpdated(out)
    \/ \E data \in OtherData : OtherWrite(data)

\* the calls of setConfigMap return: the process goes on running
SpecWrite ==
    /\ InitWrite
    /\ [][NextWrite]_vars
    /\ WF_vars(\E ok \in BOOLEAN : ConfigMapGot(ok))
    /\ WF_vars(\E out \in {"ok", "conflict", "error"} : ConfigMapUpdated(out))

\* ----------------------------------------------------------- REST transport
\* The tokens of FssClient against a clock. A call on the wire is
\* [url, body, token, bearer, out]: the login URL, the refresh URL or the
\* root URL of the FSS API; what the body carries; the Authorization header.
AuthURL == "login"
refreshURL == "refresh"
rootURL == "root"
Methods == {"GET", "POST", "DELETE"}
\* the token strings the server issues: the client only stores and sends
\* them, so two values tell a new token from the one before
Tokens == {1, 2}
WireCall(url, body, token, bearer, out) ==
    [url |-> url, body |-> body, token |-> token, bearer |-> bearer, out |-> out]

\* what the login endpoint answers: out is "ok" for a 200 with a decodable
\* body, else the step of login that fails
LoginOuts == {"ok", "transport", "read", "status", "decode"}
ExpiresIns == {1, 2}
RefreshExpiresIns == {2, 4}
LoginReplies ==
    [out : {"ok"}, AccessToken : Tokens, RefreshToken : Tokens,
     ExpiresIn : ExpiresIns, RefreshExpiresIn : RefreshExpiresIns]
    \cup [out : LoginOuts \ {"ok"}, AccessToken : {NoToken}, RefreshToken : {NoToken},
          ExpiresIn : {0}, RefreshExpiresIn : {0}]

\* login at time now: [t, err]
login(t, loginURL, now, reply) ==
    LET call == IF loginURL = refreshURL
                THEN WireCall(loginURL, "refresh_token", t.loginResponse.RefreshToken,
                              t.loginResponse.AccessToken, reply.out)
                ELSE WireCall(loginURL, "password", NoToken, NoToken, reply.out)
        sent == [t EXCEPT !.calls = Append(@, call)]
    IN  IF reply.out # "ok" THEN [t |-> sent, err |-> reply.out]
        ELSE [t |-> [sent EXCEPT
                        !.accessTokenExpiry = now + reply.ExpiresIn,
                        !.refreshTokenExpiry = IF loginURL # refreshURL
                                               THEN now + reply.RefreshExpiresIn ELSE @,
                        !.loginResponse = [AccessToken |-> reply.AccessToken,
                                           RefreshToken |-> reply.RefreshToken]],
              err |-> "nil"]

GetAccessToken_AccessFirst(t, now, later, reply) ==
    IF now > t.accessTokenExpiry THEN login(t, refreshURL, later, reply)
    ELSE IF now > t.refreshTokenExpiry THEN login(t, AuthURL, later, reply)
    ELSE [t |-> t, err |-> "nil"]

\* GetAccessToken reads the clock at now, login reads it again at later
GetAccessToken(t, now, later, reply) ==
    IF now > t.refreshTokenExpiry THEN login(t, AuthURL, later, reply)
    ELSE IF now > t.accessTokenExpiry THEN login(t, refreshURL, later, reply)
    ELSE [t |-> t, err |-> "nil"]

\* GET, POST and DELETE on the wire: the token check, then the request with
\* the bearer token
Wire(t, method, now, later, reply, out) ==
    LET g == GetAccessToken([t EXCEPT !.calls = <<>>], now, later, reply)
        done == [g.t EXCEPT !.requests = @ + 1, !.now = later]
    IN  IF g.err # "nil" THEN [done EXCEPT !.status = 0, !.err = g.err]
        ELSE [done EXCEPT
                 !.calls = Append(@, WireCall(rootURL, method, NoToken,
                                              g.t.loginResponse.AccessToken, out)),
                 !.status = CASE out = "transport" -> 0 [] out = "ok" -> 200 [] OTHER -> 500,
                 !.err = IF out = "transport" THEN out ELSE "nil"]

\* what the FSS API answers: no answer, a 200, a 500
RequestOuts == {"transport", "ok", "status"}

Request(method, d, reply, out) ==
    /\ tokens.requests < MaxRequests
    /\ tokens.now + d <= MaxNow
    /\ tokens' = Wire(tokens, method, tokens.now, tokens.now + d, reply, out)
    /\ UNCHANGED <<database, configmap, server, deployment, running, log, lastOp, uncommitted,
                   faults, steps, boot, write, nad, vlans>>

Tick ==
    /\ tokens.now < MaxNow
    /\ tokens' = [tokens EXCEPT !.now = @ + 1]
    /\ UNCHANGED <<database, configmap, server, deployment, running, log, lastOp, uncommitted,
                   faults, steps, boot, write, nad, vlans>>

\* NewFssClient has logged in at time 0
InitTokens ==
    /\ database = EmptyDatabase
    /\ configmap = [database |-> encode(EmptyDatabase)]
    /\ server = EmptyServer
    /\ deployment = [id |-> 1, adminUp |-> TRUE]
    /\ running = TRUE
    /\ log = <<>>
    /\ lastOp = Op("NewFssClient", <<>>, "nil", <<>>, {})
    /\ uncommitted = NoUncommitted
    /\ faults = [fail |-> 0, crash |-> 0]
    /\ steps = 0
    /\ boot = Booted
    /\ write = NoWrite
    /\ nad = NoNad
    /\ tokens \in {login(NoTokens, AuthURL, 0, reply).t :
                      reply \in {r \in LoginReplies : r.out = "ok"}}
    /\ vlans = NoVlans

\* the login endpoint answers only a client that asks: with both tokens valid
\* at now no login is sent, and one reply stands for all
Answers(t, now) ==
    IF now > t.refreshTokenExpiry \/ now > t.accessTokenExpiry THEN LoginReplies
    ELSE {r \in LoginReplies : r.out = "transport"}

NextTokens ==
    \/ \E method \in Methods, d \in 0..1, out \in RequestOuts :
           \E reply \in Answers(tokens, tokens.now) : Request(method, d, reply, out)
    \/ Tick

SpecTokens == InitTokens /\ [][NextTokens]_vars

\* -------------------------------------------------------- VLAN interfaces
\* The agent of a node: vlanMap, and the links of the node. links are the
\* names of the vlan interfaces made by LinkAdd, others the links another
\* function made, each [name, parent, altnames]. created is the history of
\* the calls: the NADs whose createVlanInterface for an interface returned
\* no error and that have not called deleteVlanInterface for it since.
TenantVlan == <<"t", "e", "n", "a", "n", "t", ".", "1">>
VlanIfNames == {TenantVlan}
NadNames == {<<"a">>, <<"b">>}
OtherPrefix == <<"o", "t", "h", "e", "r", "/">>
VlanPrefix == <<"v", "l", "a", "n">>
BondSuffix == <<"-", "b", "o", "n", "d">>
Eth0 == <<"e", "t", "h", "0">>

\* AddToVlanMap: [vlanMap, numUsers]
AddToVlanMap(vlanMap, nadName, vlanIfName) ==
    IF ~Has(vlanMap, vlanIfName)
    THEN [vlanMap |-> Put(vlanMap, vlanIfName, <<nadName>>), numUsers |-> 1]
    ELSE IF \E i \in 1..Len(vlanMap[vlanIfName]) : vlanMap[vlanIfName][i] = nadName
    THEN [vlanMap |-> vlanMap, numUsers |-> Len(vlanMap[vlanIfName])]
    ELSE [vlanMap |-> Put(vlanMap, vlanIfName, Append(vlanMap[vlanIfName], nadName)),
          numUsers |-> Len(vlanMap[vlanIfName]) + 1]

\* DelFromVlanMap, the loop: range walks the indices of the list as it was
\* and reads through the backing array arr, of which the list held by
\* vlanMap is the first len entries
RECURSIVE DelLoop(_, _, _, _, _)
DelLoop(arr, len, k, nadName, numUsers) ==
    IF k > Len(arr) THEN [list |-> SubSeq(arr, 1, len), numUsers |-> numUsers, panic |-> FALSE]
    ELSE IF arr[k] # nadName THEN DelLoop(arr, len, k + 1, nadName, numUsers)
    ELSE IF k > len THEN [list |-> SubSeq(arr, 1, len), numUsers |-> numUsers, panic |-> TRUE]
    ELSE DelLoop(Removed(arr, len, k), len - 1, k + 1, nadName, numUsers - 1)

\* DelFromVlanMap: [vlanMap, numUsers, panic]
DelFromVlanMap(vlanMap, nadName, vlanIfName) ==
    IF ~Has(vlanMap, vlanIfName) THEN [vlanMap |-> vlanMap, numUsers |-> 0, panic |-> FALSE]
    ELSE LET r == DelLoop(vlanMap[vlanIfName], Len(vlanMap[vlanIfName]), 1, nadName,
                          Len(vlanMap[vlanIfName]))
         IN  [vlanMap |-> IF r.numUsers = 0 /\ ~r.panic THEN Del(vlanMap, vlanIfName)
                          ELSE Put(vlanMap, vlanIfName, r.list),
              numUsers |-> r.numUsers, panic |-> r.panic]

\* netlink.LinkByName: a link of the node by its name or by an altname
OtherLinks(v, name) == {o \in v.others : o.name = name \/ name \in o.altnames}
LinkByName(v, name) == name \in v.links \/ OtherLinks(v, name) # {}

\* netlink.LinkDel of the link LinkByName found
LinkDel(v, name) ==
    [v EXCEPT !.links = @ \ {name}, !.others = @ \ OtherLinks(v, name), !.linkDel = TRUE]

\* strconv.Atoi returns no error
IsNumber(s) == s # <<>> /\ \A i \in 1..Len(s) : IsDigit(s[i])

getVlanInterface(v, vlanIfName) ==
    LET m == Split(vlanIfName, ".")
    IN  /\ Len(m) = 2
        /\ m[1] \in {<<"t", "e", "n", "a", "n", "t">>, <<"p", "r", "o", "v", "i", "d", "e", "r">>}
        /\ IsNumber(m[2])
        /\ LinkByName(v, vlanIfName)

\* the link vlanByOther another function made on the bond of the interface
ByOther(v, vlanIfName) ==
    LET m == Split(vlanIfName, ".")
    IN  {o \in OtherLinks(v, VlanPrefix \o m[2]) : o.parent = m[1] \o BondSuffix}

\* the call returned: [v, ret, err]
VlanReturned(v, a, err) == [v |-> [v EXCEPT !.vlanMap = a.vlanMap], ret |-> a.numUsers, err |-> err]

\* createVlanInterface; out tells whether the ip command, or LinkAdd, works.
\* The bond of the interface is there.
createVlanInterface(v, nadName, vlanIfName, out) ==
    LET m == Split(vlanIfName, ".")
        other == ByOther(v, vlanIfName)
        noted == [v EXCEPT !.vlanMap = AddToVlanMap(@, OtherPrefix \o VlanPrefix \o m[2],
                                                    vlanIfName).vlanMap]
    IN  IF other # {}
        THEN IF getVlanInterface(noted, vlanIfName)
             THEN VlanReturned(noted, AddToVlanMap(noted.vlanMap, nadName, vlanIfName), "nil")
             ELSE IF out # "ok" THEN [v |-> noted, ret |-> 1, err |-> "altname"]
             ELSE VlanReturned([noted EXCEPT !.others =
                                   {IF o \in other THEN [o EXCEPT !.altnames = @ \cup {vlanIfName}]
                                    ELSE o : o \in @}],
                               AddToVlanMap(noted.vlanMap, nadName, vlanIfName), "nil")
        ELSE IF getVlanInterface(v, vlanIfName)
        THEN VlanReturned(v, AddToVlanMap(v.vlanMap, nadName, vlanIfName), "nil")
        ELSE IF out # "ok" THEN [v |-> v, ret |-> 0, err |-> "netlink"]
        ELSE VlanReturned([v EXCEPT !.links = @ \cup {vlanIfName}],
                          AddToVlanMap(v.vlanMap, vlanIfName, nadName), "nil")

\* deleteVlanInterface, after DelFromVlanMap answered d; out tells whether
\* LinkDel works
Unused(v, d, vlanIfName, out) ==
    IF d.panic THEN [v |-> [v EXCEPT !.vlanMap = d.vlanMap], ret |-> 0, err |-> "panic"]
    ELSE IF d.numUsers > 0
    THEN [v |-> [v EXCEPT !.vlanMap = d.vlanMap], ret |-> d.numUsers, err |-> "nil"]
    ELSE IF ~LinkByName(v, vlanIfName)
    THEN [v |-> [v EXCEPT !.vlanMap = d.vlanMap], ret |-> 0, err |-> "notfound"]
    ELSE IF out # "ok"
    THEN [v |-> [v EXCEPT !.vlanMap = d.vlanMap], ret |-> 0, err |-> "netlink"]
    ELSE [v |-> LinkDel([v EXCEPT !.vlanMap = d.vlanMap], vlanIfName), ret |-> 0, err |-> "nil"]

deleteVlanInterface(v, nadName, vlanIfName, out) ==
    LET m == Split(vlanIfName, ".")
        noted == IF ByOther(v, vlanIfName) # {}
                 THEN AddToVlanMap(v.vlanMap, OtherPrefix \o VlanPrefix \o m[2], vlanIfName).vlanMap
                 ELSE v.vlanMap
    IN  Unused(v, DelFromVlanMap(noted, nadName, vlanIfName), vlanIfName, out)

\* a call of the agent returned r
VlanCalled(fn, nadName, vlanIfName, r, created) ==
    /\ vlans.calls < MaxVlanCalls
    /\ vlans' = [r.v EXCEPT !.calls = @ + 1, !.fn = fn, !.nadName = nadName,
                            !.vlanIfName = vlanIfName, !.ret = r.ret, !.err = r.err,
                            !.created = created]
    /\ UNCHANGED <<database, configmap, server, deployment, running, log, lastOp, uncommitted,
                   faults, steps, boot, write, nad, tokens>>

DoCreateVlanInterface(nadName, vlanIfName, out) ==
    LET r == createVlanInterface([vlans EXCEPT !.linkDel = FALSE], nadName, vlanIfName, out)
    IN  VlanCalled("createVlanInterface", nadName, vlanIfName, r,
                   IF r.err = "nil" THEN vlans.created \cup {<<nadName, vlanIfName>>}
                   ELSE vlans.created)

DoDeleteVlanInterface(nadName, vlanIfName, out) ==
    LET r == deleteVlanInterface([vlans EXCEPT !.linkDel = FALSE], nadName, vlanIfName, out)
    IN  VlanCalled("deleteVlanInterface", nadName, vlanIfName, r,
                   vlans.created \ {<<nadName, vlanIfName>>})

\* another function of the node makes, or removes, its vlan link on parent
OtherMakes(name, parent) ==
    /\ ~LinkByName(vlans, name)
    /\ vlans' = [vlans EXCEPT !.others = @ \cup {[name |-> name, parent |-> parent,
                                                   altnames |-> {}]}]
    /\ UNCHANGED <<database, configmap, server, deployment, running, log, lastOp, uncommitted,
                   faults, steps, boot, write, nad, tokens>>

OtherRemoves(name) ==
    /\ OtherLinks(vlans, name) # {}
    /\ vlans' = [vlans EXCEPT !.others = @ \ OtherLinks(vlans, name)]
    /\ UNCHANGED <<database, configmap, server, deployment, running, log, lastOp, uncommitted,
                   faults, steps, boot, write, nad, tokens>>

NextVlans ==
    \/ \E nadName \in NadNames, vlanIfName \in VlanIfNames, out \in {"ok", "fail"} :
           DoCreateVlanInterface(nadName, vlanIfName, out)
    \/ \E nadName \in NadNames, vlanIfName \in VlanIfNames, out \in {"ok", "fail"} :
           DoDeleteVlanInterface(nadName, vlanIfName, out)
    \/ \E parent \in {TenantBond, Eth0} : OtherMakes(VlanPrefix \o <<"1">>, parent)
    \/ OtherRemoves(VlanPrefix \o <<"1">>)

SpecVlans == Init /\ [][NextVlans]_vars

\* ------------------------------------------------------- mirror invariants
\* the mirror the ConfigMap holds
PersistedMirror == decode(configmap.database)

\* every REST call of the log was answered with the status of a success
RestSucceeded(l) == \A i \in 1..Len(l) : l[i].status \in {200, 201, 204}

\* workloadMapping[name] = wid iff tenants[wid] exists and carries name
Invariant1(db) ==
    /\ \A n \in DOMAIN db.workloadMapping :
          /\ Has(db.tenants, db.workloadMapping[n])
          /\ db.tenants[db.workloadMapping[n]].fssWorkloadEvpnName = n
    /\ \A w \in DOMAIN db.tenants :
          GetId(db.workloadMapping, db.tenants[w].fssWorkloadEvpnName) = w

\* subnetMapping[w][name] = sid iff subnets[sid] exists, carries name and
\* belongs to tenant w
Invariant2(db) ==
    /\ \A w \in DOMAIN db.subnetMapping : \A n \in DOMAIN db.subnetMapping[w] :
          /\ Has(db.subnets, db.subnetMapping[w][n])
          /\ db.subnets[db.subnetMapping[w][n]].fssSubnetName = n
          /\ Has(db.tenants, w)
          /\ db.subnets[db.subnetMapping[w][n]].tenantId = db.tenants[w].id
    /\ \A sid \in DOMAIN db.subnets : \A w \in DOMAIN db.tenants :
          db.subnets[sid].tenantId = db.tenants[w].id
              => GetId(GetMap(db.subnetMapping, w), db.subnets[sid].fssSubnetName) = sid

\* attachedLabels[sid][v] = L implies hostPortLabels[sid][v] = L
Invariant3(db) ==
    \A sid \in DOMAIN db.attachedLabels : \A v \in DOMAIN db.attachedLabels[sid] :
        /\ Has(GetMap(db.hostPortLabels, sid), v)
        /\ db.hostPortLabels[sid][v] = db.attachedLabels[sid][v]

\* attachedPorts[L] holds at most one association per hostPortId
Invariant4(db) ==
    \A l \in DOMAIN db.attachedPorts :
        \A i, j \in 1..Len(db.attachedPorts[l]) :
            i # j => DOMAIN db.attachedPorts[l][i] \cap DOMAIN db.attachedPorts[l][j] = {}

\* every hostPortId of attachedPorts is the id of a port in hostPorts
Invariant5(db) ==
    \A l \in DOMAIN db.attachedPorts : \A i \in 1..Len(db.attachedPorts[l]) :
        \A h \in DOMAIN db.attachedPorts[l][i] : KnownHostPort(db, h)

\* the ids of the server objects the entries of a mirror refer to
MirrorRefs(db) ==
    {db.tenants[w].id : w \in DOMAIN db.tenants}
    \cup {db.subnets[x].id : x \in DOMAIN db.subnets}
    \cup UNION {Values(db.hostPortLabels[x]) : x \in DOMAIN db.hostPortLabels}
    \cup UNION {Values(db.attachedLabels[x]) : x \in DOMAIN db.attachedLabels}
    \cup UNION {Values(db.hostPorts[n]) : n \in DOMAIN db.hostPorts}
    \cup DOMAIN db.attachedPorts
    \cup UNION {UNION {DOMAIN db.attachedPorts[l][i] \cup Values(db.attachedPorts[l][i]) :
                          i \in 1..Len(db.attachedPorts[l])} : l \in DOMAIN db.attachedPorts}

\* ------------------------------------------------------------------ claims
\* C1: server-side orphan recovery. When the process that had POSTed objects
\* it never saved in the mirror is started again and the restart resync ends
\* with every REST call succeeding, none of these objects is left on the
\* server.
C1_OrphansDeleted ==
    (lastOp.op = "Restart" /\ lastOp.err = "nil" /\ RestSucceeded(log))
        => lastOp.args[1] \cap SrvIds(server) = {}

\* C2: mirror-side ghost recovery. When the process that had DELETEd objects
\* without saving the mirror is started again and the mirror shrink of the
\* resync is done and saved, every entry of the persisted mirror refers to
\* objects the server held when the process started.
C2_GhostsDropped ==
    (lastOp.op = "Restart" /\ lastOp.ret = TRUE /\ lastOp.args[2] # {})
        => MirrorRefs(PersistedMirror) \subseteq lastOp.ids

\* C3: mirror invariant 2 holds in the mirror TxnDone persisted, after an
\* engine operation and after the mirror shrink of the resync.
C3_Invariant2Persisted ==
    (lastOp.op = "TxnDone" \/ (lastOp.op = "Restart" /\ lastOp.ret = TRUE))
        => Invariant2(PersistedMirror)

\* C4: mirror invariant 1 holds after every sequence of engine operations
\* and after the resync, in the mirror in memory and in the persisted one.
C4_Invariant1 == Invariant1(database) /\ Invariant1(PersistedMirror)

\* C4, its case: a DeleteDetach that collapsed the tenant
C4_Witness ==
    /\ lastOp.op = "DeleteSubnetInterface"
    /\ lastOp.args[4] = "DeleteDetach"
    /\ lastOp.err = "nil"
    /\ \E i \in 1..Len(log) : log[i].method = "DELETE" /\ log[i].path = "tenants"
    /\ ~Has(database.tenants, lastOp.ret[1])
    /\ DOMAIN PersistedMirror.tenants # {}

\* C5: mirror invariant 3 holds in every state reachable through Attach,
\* Detach, DetachNode and the resync: a vlan recorded as attached to a subnet
\* has the same label recorded as created.
C5_Invariant3 == Invariant3(database) /\ Invariant3(PersistedMirror)

\* C5, its case: an Attach that attached a label to its subnet
C5_Witness ==
    /\ lastOp.op = "Attach"
    /\ lastOp.err = "nil"
    /\ \E i \in 1..Len(log) : log[i].path = "hostportlabelsubnetassociations"
                               /\ log[i].status = 201
    /\ \E sid \in DOMAIN database.attachedLabels : DOMAIN database.attachedLabels[sid] # {}

C7_Invariant4 == Invariant4(database) /\ Invariant4(PersistedMirror)

\* C7, its case: AttachHostPort found the port attached already, in a list
\* of two associations
C7_Witness ==
    /\ lastOp.op = "AttachHostPort"
    /\ lastOp.err = "nil"
    /\ log = <<>>
    /\ Has(database.attachedPorts, lastOp.args[1])
    /\ Len(database.attachedPorts[lastOp.args[1]]) = 2

\* C8: CreateSubnetInterface is idempotent: a successful call followed by a
\* call with the same arguments returns the same ids, POSTs nothing and
\* leaves the mirror as it was.
C8_Idempotent ==
    [][(/\ lastOp.op = "CreateSubnetInterface"
        /\ lastOp.err = "nil"
        /\ lastOp'.op = "CreateSubnetInterface"
        /\ lastOp'.args = lastOp.args)
       => (/\ lastOp'.err = "nil"
           /\ lastOp'.ret = lastOp.ret
           /\ \A i \in 1..Len(log') : log'[i].method # "POST"
           /\ database' = database)]_vars

\* C8, its case: a CreateSubnetInterface that found the tenant, the subnet
\* and the label, so that it made no REST call
C8_Witness ==
    /\ lastOp.op = "CreateSubnetInterface"
    /\ lastOp.err = "nil"
    /\ log = <<>>
    /\ lastOp.ret[2] \in UNION {Values(database.hostPortLabels[x]) :
                                   x \in DOMAIN database.hostPortLabels}

\* C9: upward collapse, the post-condition. After a DeleteDetach that leaves
\* the subnet without attached label the mirror has no subnets, no
\* hostPortLabels, no attachedLabels and no subnetMapping entry for it, and
\* when no subnet of the tenant is left, the tenant, its workloadMapping
\* entry and its subnetMapping are gone.
C9_CollapsePost ==
    (/\ lastOp.op = "DeleteSubnetInterface"
     /\ lastOp.args[4] = "DeleteDetach"
     /\ running
     /\ DOMAIN GetMap(database.attachedLabels, lastOp.ret[2]) = {})
    => (/\ ~Has(database.subnets, lastOp.ret[2])
        /\ ~Has(database.hostPortLabels, lastOp.ret[2])
        /\ ~Has(database.attachedLabels, lastOp.ret[2])
        /\ \A w \in DOMAIN database.subnetMapping :
              lastOp.ret[2] \notin Values(database.subnetMapping[w])
        /\ (\A x \in DOMAIN database.subnets : database.subnets[x].tenantId # lastOp.ret[1])
              => (/\ ~Has(database.tenants, lastOp.ret[1])
                  /\ lastOp.ret[1] \notin Values(database.workloadMapping)
                  /\ ~Has(database.subnetMapping, lastOp.ret[1])))

\* C10: upward collapse, the trigger. A DeleteDetach that deletes its label
\* drops the subnet exactly when the mirror held no other label for it, and
\* the tenant exactly when the subnet dropped was its last one.
C10_CollapseTrigger ==
    [][(/\ lastOp'.op = "DeleteSubnetInterface"
        /\ lastOp'.args[4] = "DeleteDetach"
        /\ lastOp'.err # "transport"
        /\ Has(database.subnets, lastOp'.ret[2])
        /\ Has(database.tenants, lastOp'.ret[1]))
       => (/\ ~Has(database'.subnets, lastOp'.ret[2])
              <=> DOMAIN GetMap(database.hostPortLabels, lastOp'.ret[2])
                     \subseteq {MkVlan(lastOp'.args[3])}
           /\ ~Has(database'.tenants, lastOp'.ret[1])
              <=> (/\ ~Has(database'.subnets, lastOp'.ret[2])
                   /\ \A x \in DOMAIN database.subnets :
                         database.subnets[x].tenantId = database.tenants[lastOp'.ret[1]].id
                             => x = lastOp'.ret[2]))]_vars

\* the paths of the REST calls of a log
Paths(l) == [i \in 1..Len(l) |-> l[i].path]

\* the object of a collection with this id
ObjectOf(S, id) == CHOOSE o \in S : o.id = id

\* every node of an Attach or Detach that returned was done without error
NodesDone(op) == op.err = "nil" /\ \A n \in DOMAIN op.ret : op.ret[n] = "nil"

\* C11: create ordering of one Attach(CreateAttach) on a fresh mirror. The
\* POSTs are, in this order, the tenant, the subnet, the label, then for each
\* port its host port and the association of that host port with the label,
\* and last the association of the label with the subnet; the mirror TxnDone
\* saves next holds one tenant, one subnet, one label, one attached label
\* and, for each port, one host port and one attached port.
C11_CreateOrder ==
    [][/\ (/\ database = EmptyDatabase
           /\ server = EmptyServer
           /\ lastOp'.op = "Attach"
           /\ lastOp'.args[5] = "CreateAttach"
           /\ NodesDone(lastOp'))
          => LET n == Len(log')
                 hpa == server'.hostportlabelhostportassociations
                 sa == server'.hostportlabelsubnetassociations
             IN  /\ n >= 4
                 /\ \A i \in 1..n : log'[i].method = "POST" /\ log'[i].status = 201
                 /\ SubSeq(Paths(log'), 1, 3) = <<"tenants", "subnets", "hostportlabels">>
                 /\ log'[n].path = "hostportlabelsubnetassociations"
                 /\ ObjectOf(sa, log'[n].id).hostPortLabelId = log'[3].id
                 /\ ObjectOf(sa, log'[n].id).subnetId = log'[2].id
                 /\ \A i \in 4..(n - 1) :
                       \/ /\ log'[i].path = "hostports"
                          /\ i + 1 < n
                          /\ log'[i + 1].path = "hostportlabelhostportassociations"
                       \/ /\ log'[i].path = "hostportlabelhostportassociations"
                          /\ log'[i - 1].path = "hostports"
                          /\ ObjectOf(hpa, log'[i].id).hostPortId = log'[i - 1].id
                          /\ ObjectOf(hpa, log'[i].id).hostPortLabelId = log'[3].id
                 /\ (n - 4) = 2 * Cardinality(lastOp'.args[4])   \* a node has one port
       /\ (/\ steps = 1
           /\ lastOp.op = "Attach"
           /\ lastOp.args[5] = "CreateAttach"
           /\ NodesDone(lastOp)
           /\ lastOp'.op = "TxnDone")
          => LET db == decode(configmap'.database)
             IN  /\ Cardinality(DOMAIN db.tenants) = 1
                 /\ Cardinality(DOMAIN db.subnets) = 1
                 /\ \A s \in DOMAIN db.subnets :
                       /\ Cardinality(DOMAIN GetMap(db.hostPortLabels, s)) = 1
                       /\ Cardinality(DOMAIN GetMap(db.attachedLabels, s)) = 1
                 /\ DOMAIN db.hostPortLabels = DOMAIN db.subnets
                 /\ DOMAIN db.attachedLabels = DOMAIN db.subnets
                 /\ \A node \in lastOp.args[4] :
                       /\ Cardinality(DOMAIN GetMap(db.hostPorts, node)) = 1
                       /\ \A l \in DOMAIN db.attachedPorts :
                             /\ Len(db.attachedPorts[l]) = 1
                             /\ DOMAIN db.attachedPorts[l][1] = Values(db.hostPorts[node])
                 /\ DOMAIN db.hostPorts = lastOp.args[4]
                 /\ Cardinality(DOMAIN db.attachedPorts) = Cardinality(lastOp.args[4])]_vars

\* C11, its case: the mirror saved after the Attach of one port on a fresh
\* mirror
C11_Witness ==
    /\ steps = 2
    /\ lastOp.op = "TxnDone"
    /\ Cardinality(DOMAIN PersistedMirror.tenants) = 1
    /\ \E l \in DOMAIN PersistedMirror.attachedPorts : Len(PersistedMirror.attachedPorts[l]) = 1
    /\ \E s \in DOMAIN PersistedMirror.attachedLabels :
          DOMAIN PersistedMirror.attachedLabels[s] # {}

\* C13: delete ordering. A Detach(DeleteDetach) of the only attached vlan of
\* the only subnet of a tenant makes three REST calls, the DELETE of the
\* label, of the subnet and of the tenant in this order, and leaves no entry
\* of the tenant, the subnet and the label in the mirror.
C13_DeleteOrder ==
    [][LET w == lastOp'.args[1]
           s == lastOp'.args[2]
           g == GetSubnetInterface([db |-> database], w, s, lastOp'.args[3][1])
       IN  (/\ lastOp'.op = "Detach"
            /\ lastOp'.args[5] = "DeleteDetach"
            /\ Len(lastOp'.args[3]) = 1
            /\ g.exists
            /\ GetMap(database.attachedLabels, g.fssSubnetID)
                  = [v \in {MkVlan(lastOp'.args[3][1])} |-> g.hostPortLabelID]
            /\ DOMAIN GetMap(database.subnetMapping, g.fssWorkloadEvpnID) = {s}
            /\ Has(database.subnets, g.fssSubnetID)
            /\ Has(database.tenants, g.fssWorkloadEvpnID)
            /\ lastOp'.err # "transport")
           => /\ [i \in 1..Len(log') |-> <<log'[i].method, log'[i].path, log'[i].id>>]
                    = << <<"DELETE", "hostportlabels", g.hostPortLabelID>>,
                         <<"DELETE", "subnets", database.subnets[g.fssSubnetID].id>>,
                         <<"DELETE", "tenants", database.tenants[g.fssWorkloadEvpnID].id>> >>
              /\ ~Has(database'.tenants, g.fssWorkloadEvpnID)
              /\ ~Has(database'.workloadMapping, w)
              /\ ~Has(database'.subnetMapping, g.fssWorkloadEvpnID)
              /\ ~Has(database'.subnets, g.fssSubnetID)
              /\ ~Has(database'.hostPortLabels, g.fssSubnetID)
              /\ ~Has(database'.attachedLabels, g.fssSubnetID)
              /\ ~Has(database'.attachedPorts, g.hostPortLabelID)]_vars

\* C13, its case: a Detach(DeleteDetach) that deleted a label, a subnet and
\* a tenant and left none in the mirror
C13_Witness ==
    /\ lastOp.op = "Detach"
    /\ lastOp.args[5] = "DeleteDetach"
    /\ lastOp.err = "nil"
    /\ Paths(log) = <<"hostportlabels", "subnets", "tenants">>
    /\ \A i \in 1..Len(log) : log[i].method = "DELETE" /\ log[i].status = 204
    /\ DOMAIN database.tenants = {}

\* C14: when the DELETE of the label that DeleteSubnetInterface makes is
\* answered with another status than 204, the operation returns an error
\* and the mirror has lost hostPortLabels[sid][v], attachedLabels[sid][v] and
\* attachedPorts[label] all the same.
C14_CleanupOnFailure ==
    [][LET v == MkVlan(lastOp'.args[3][1])
           g == GetSubnetInterface([db |-> database], lastOp'.args[1], lastOp'.args[2],
                                   lastOp'.args[3][1])
       IN  (/\ lastOp'.op = "Detach"
            /\ lastOp'.args[5] \in {"DeleteDetach", "UpdateDetach"}
            /\ g.exists
            /\ Len(log') >= 1
            /\ log'[1].method = "DELETE"
            /\ log'[1].path = "hostportlabels"
            /\ log'[1].id = g.hostPortLabelID
            /\ log'[1].status \notin {204, 0})
           => /\ lastOp'.err = "status"
              /\ running'
              /\ ~Has(GetMap(database'.hostPortLabels, g.fssSubnetID), v)
              /\ ~Has(GetMap(database'.attachedLabels, g.fssSubnetID), v)
              /\ ~Has(database'.attachedPorts, g.hostPortLabelID)]_vars

\* C14, its case: an UpdateDetach whose DELETE of the label was answered 500,
\* of a label that had a port attached
C14_Witness ==
    /\ lastOp.op = "Detach"
    /\ lastOp.args[5] = "UpdateDetach"
    /\ lastOp.err = "status"
    /\ Len(log) = 1
    /\ log[1].path = "hostportlabels"
    /\ log[1].status = 500
    /\ DOMAIN database.subnets # {}
    /\ DOMAIN database.attachedPorts = {}
    /\ \E n \in DOMAIN database.hostPorts : DOMAIN database.hostPorts[n] # {}

C12_TwoPhases ==
    [][(/\ lastOp'.op = "Attach"
        /\ lastOp'.args[5] \in {"CreateAttach", "UpdateAttach"})
       => \A i, j \in 1..Len(log') :
             (/\ log'[i].path = "hostportlabelsubnetassociations"
              /\ log'[j].path \in {"hostports", "hostportlabelhostportassociations"})
             => j < i]_vars

\* C15: bond create ordering. After an Attach that ended without error for a
\* node with an 802.3ad bond, the server holds the bond as a LAG host port
\* without parent and each slave port as a host port that is no LAG and has
\* the LAG port as its parent, and no slave was POSTed before the LAG port.
C15_BondCreateOrder ==
    [][(lastOp'.op = "Attach" /\ NodesDone(lastOp'))
       => \A nodesInfo \in {x \in LagNodesInfos : DOMAIN x = lastOp'.args[4]} :
          \A node \in DOMAIN nodesInfo : \A bondName \in DOMAIN nodesInfo[node].Bonds :
             LET hostPorts == GetMap(database'.hostPorts, node)
                 bond == nodesInfo[node].Bonds[bondName]
             IN  bond.Mode = "802.3ad"
                 => /\ Has(hostPorts, bondName)
                    /\ \E o \in server'.hostports :
                          /\ o.id = hostPorts[bondName]
                          /\ o.isLag
                          /\ o.parentHostPortId = NoId
                    /\ \A p \in DOMAIN bond.Ports :
                          /\ Has(hostPorts, p)
                          /\ \E o \in server'.hostports :
                                /\ o.id = hostPorts[p]
                                /\ ~o.isLag
                                /\ o.parentHostPortId = hostPorts[bondName]
                          /\ \A i, j \in 1..Len(log') :
                                (log'[i].id = hostPorts[p] /\ log'[j].id = hostPorts[bondName])
                                => j < i
                          /\ (\E j \in 1..Len(log') : log'[j].id = hostPorts[bondName])
                             \/ KnownHostPort(database, hostPorts[bondName])]_vars

\* C15, its case: an Attach that POSTed the LAG port and its two slaves
C15_Witness ==
    /\ lastOp.op = "Attach"
    /\ NodesDone(lastOp)
    /\ Cardinality({i \in 1..Len(log) : log[i].path = "hostports" /\ log[i].status = 201}) = 3
    /\ \E o \in server.hostports : o.isLag
    /\ \E o \in server.hostports : o.parentHostPortId # NoId

\* C16: DetachNode delete ordering. DetachNode makes one DELETE for every
\* host port the mirror holds for the node, those of the ports that are no
\* LAG before those of the LAG ports, and leaves no hostPorts[node].
C16_DetachNodeOrder ==
    [][lastOp'.op = "DetachNode"
       => LET ids == Values(GetMap(database.hostPorts, lastOp'.args[1]))
              lag == {o.id : o \in {x \in server.hostports : x.isLag}}
          IN  /\ Len(log') = Cardinality(ids)
              /\ \A i \in 1..Len(log') : log'[i].method = "DELETE" /\ log'[i].path = "hostports"
              /\ \A id \in ids : \E i \in 1..Len(log') : log'[i].id = id
              /\ \A i, j \in 1..Len(log') :
                    (log'[i].id \in lag /\ log'[j].id \notin lag) => j < i
              /\ ~Has(database'.hostPorts, lastOp'.args[1])]_vars

\* C16, its case: a DetachNode that deleted the two slaves and the LAG port
C16_Witness ==
    /\ lastOp.op = "DetachNode"
    /\ Len(log) = 3
    /\ \A i \in 1..Len(log) : log[i].status = 204
    /\ server.hostports = {}
    /\ ~Has(database.hostPorts, lastOp.args[1])

\* C18: failures of Resync do not abort the start. Whenever NewFssClient has
\* reached Resync, whatever the REST calls of Resync are answered, it
\* returns the client and no error: the process is up.
C18_ResyncNeverAborts ==
    (lastOp.op \in {"NewFssClient", "Poll"} /\ lastOp.args = <<"resync">>)
    => (lastOp.err = "nil" /\ running /\ boot.pc = "up")

\* C19: the start waits for adminUp. NewFssClient returns the client only
\* when the server reports adminUp = true for the deployment the client
\* uses.
C19_BlocksOnAdminUp ==
    [][(boot.pc # "up" /\ boot'.pc = "up")
       => \E d \in server.deployments : d.id = deployment'.id /\ d.adminUp]_vars

\* C20: the bounded optimistic write. setConfigMap fetches the ConfigMap
\* before every Update, makes at most 256 Updates, returns nil as soon as an
\* Update succeeds, returns the error of the first Update that fails without
\* a conflict, returns the conflict after 256 conflicts, and every call of
\* it ends (a failed Get ends it with a panic).
C20_Attempts ==
    /\ write.updates <= Attempts
    /\ write.updates = write.i + (IF write.pc = "done" /\ write.last # "conflict"
                                     /\ write.err # "panic" THEN 1 ELSE 0)
    /\ write.gets = write.updates + (IF write.pc = "update" \/ write.err = "panic" THEN 1 ELSE 0)
    /\ (write.pc \in {"get", "update"} /\ write.updates > 0) => write.last = "conflict"
    /\ (write.pc = "done" /\ write.err # "panic") =>
          /\ write.last = "ok" => write.err = "nil" /\ configmap[write.name] = write.data
          /\ write.last = "error" => write.err = "error"
          /\ write.last = "conflict" => write.err = "conflict" /\ write.updates = Attempts
          /\ write.last # "none"

C20_BoundedWrite == [](C20_Attempts) /\ ((write.pc = "get") ~> (write.pc = "done"))

\* C20, its case: a call that met 256 conflicts
C20_Witness ==
    /\ write.pc = "done"
    /\ write.err = "conflict"
    /\ write.updates = Attempts
    /\ write.gets = Attempts

\* C21: a failure to save the mirror is surfaced. When TxnDone has shown no
\* error to its caller, the persisted mirror is the mirror in memory.
C21_PersistFailureSurfaced ==
    (lastOp.op = "TxnDone" /\ lastOp.err = "nil") => PersistedMirror = database

\* the POSTs of host ports and of their associations that failed
PortFailures(l) ==
    {i \in 1..Len(l) : /\ l[i].method = "POST"
                       /\ l[i].path \in {"hostports", "hostportlabelhostportassociations"}
                       /\ l[i].status # 201}

\* C22: the errors of Attach by node. The map Attach returns has the names
\* of the nodes of nodesInfo as its keys, and the entry of a node is an error
\* when CreateHostPort or AttachHostPort failed for one of its ports (stated
\* for an Attach to one node, whose ports all the failed POSTs are of).
C22_PerNodeErrors ==
    lastOp.op = "Attach" =>
        /\ DOMAIN lastOp.ret = lastOp.args[4]
        /\ (Cardinality(lastOp.args[4]) = 1 /\ PortFailures(log) # {})
           => \A n \in lastOp.args[4] : n \in DOMAIN lastOp.ret /\ lastOp.ret[n] # "nil"

\* the POSTs of CreateSubnetInterface that failed
InterfaceFailures(l) ==
    {i \in 1..Len(l) : /\ l[i].method = "POST"
                       /\ l[i].path \in {"tenants", "subnets", "hostportlabels"}
                       /\ l[i].status # 201}

\* the failed POSTs to path
FailedPosts(l, path) ==
    {i \in 1..Len(l) : l[i].method = "POST" /\ l[i].path = path /\ l[i].status # 201}

\* the ports of the nodes ns, by node and name
PortNames(n) ==
    UNION ({DOMAIN NodesTopology[n].Bonds[b].Ports : b \in DOMAIN NodesTopology[n].Bonds}
           \cup {DOMAIN NodesTopology[n].SriovPools[k] : k \in DOMAIN NodesTopology[n].SriovPools})

PortsOf(ns) == UNION {{<<n, q>> : q \in PortNames(n)} : n \in ns}

\* whether the mirror db has the port np = <<node, name>>, and has it
\* attached to the label
HasPort(db, np) == Has(db.hostPorts, np[1]) /\ Has(db.hostPorts[np[1]], np[2])

PortAttached(db, label, np) ==
    /\ HasPort(db, np)
    /\ \E k \in 1..Len(AttachedPorts(db, label)) :
          Has(AttachedPorts(db, label)[k], db.hostPorts[np[1]][np[2]])

\* C23: a global error aborts Attach, an error of a port does not. A POST
\* of CreateSubnetInterface that fails is the last REST call of the Attach,
\* which returns an error. When CreateSubnetInterface succeeded, in an Attach
\* of one vlan every port of every node is created, but for as many ports as
\* POSTs of host ports failed, and every created port is attached to the
\* label, but for as many ports as POSTs of associations failed.
C23_GlobalErrorAborts ==
    [][lastOp'.op = "Attach" /\ log' # <<>> =>
        /\ \A i \in InterfaceFailures(log') : i = Len(log') /\ lastOp'.err # "nil"
        /\ (/\ Len(lastOp'.args[3]) = 1
            /\ InterfaceFailures(log') = {}
            /\ lastOp'.err # "panic"
            /\ GetSubnetInterface([db |-> database'], "projA", "subX", 1).exists)
           => LET label == GetSubnetInterface([db |-> database'], "projA", "subX",
                                              1).hostPortLabelID
                  ports == PortsOf(lastOp'.args[4])
              IN  /\ Cardinality({np \in ports : ~HasPort(database', np)})
                       = Cardinality(FailedPosts(log', "hostports"))
                  /\ Cardinality({np \in ports : /\ HasPort(database', np)
                                                 /\ ~PortAttached(database', label, np)})
                       = Cardinality(FailedPosts(log', "hostportlabelhostportassociations"))
      ]_vars

\* C23, its case: an Attach to two nodes in which a POST for a port of the
\* node visited first failed, and the ports of the other node are attached
C23_Witness ==
    /\ lastOp.op = "Attach"
    /\ lastOp.args[4] = {"n1", "n2"}
    /\ lastOp.err = "nil"
    /\ Len(log) >= 4
    /\ log[4].path = "hostports" /\ log[4].status # 201
    /\ \E n \in {"n1", "n2"} :
          /\ lastOp.ret[n] = "nil"
          /\ \A np \in PortsOf({n}) : PortAttached(database, 7, np)

\* C30: the errors of a Detach of nodes, by node. When DetachHostPort failed
\* for a port of a node, the entry of the node in the map Detach returns is
\* an error (stated for a Detach from one node, whose ports all the failed
\* DELETEs are of).
C30_DetachPerNodeErrors ==
    (/\ lastOp.op = "Detach"
     /\ lastOp.args[5] = "NodeDetach"
     /\ Cardinality(lastOp.args[4]) = 1
     /\ \E i \in 1..Len(log) : log[i].method = "DELETE" /\ log[i].status # 204)
    => \A n \in lastOp.args[4] : lastOp.ret[n] # "nil"

\* C28: DeleteSubnetInterface always deletes the label on the server. Called
\* for a label the mirror records in hostPortLabels, it first DELETEs the
\* label.
C28_LabelAlwaysDeleted ==
    lastOp.op = "DeleteSubnetInterface" =>
        /\ Len(log) >= 1
        /\ log[1].method = "DELETE"
        /\ log[1].path = "hostportlabels"
        /\ log[1].id = lastOp.ret[3]

\* C29: an operation of the engine returns an error when a POST it made was
\* answered with another status than 201 or a DELETE it made with another
\* status than 204.
C29_UnexpectedStatusReported ==
    (/\ lastOp.op \in {"CreateSubnetInterface", "AttachSubnetInterface",
                       "DeleteSubnetInterface", "CreateHostPort", "AttachHostPort",
                       "DetachHostPort"}
     /\ \E i \in 1..Len(log) : \/ log[i].method = "POST" /\ log[i].status # 201
                               \/ log[i].method = "DELETE" /\ log[i].status # 204)
    => lastOp.err # "nil"

\* the positions that cut r at the character ch, with both ends
Cuts(r, ch) == {0, Len(r) + 1} \cup {i \in 1..Len(r) : r[i] = ch}

\* the k-th piece of r between two cuts
Piece(r, ch, k) ==
    LET at(n) == CHOOSE c \in Cuts(r, ch) : Cardinality({d \in Cuts(r, ch) : d < c}) = n
    IN SubSeq(r, at(k - 1) + 1, at(k) - 1)

Pieces(r, ch) == [k \in 1..(Cardinality(Cuts(r, ch)) - 1) |-> Piece(r, ch, k)]

RECURSIVE Pow10(_)
Pow10(n) == IF n = 0 THEN 1 ELSE 10 * Pow10(n - 1)

\* the number that a string of digits writes, 0 for no digit
RECURSIVE Decimal(_)
Decimal(s) == IF s = <<>> THEN 0 ELSE DigitValue(Head(s)) * Pow10(Len(s) - 1) + Decimal(Tail(s))

\* an element of a vlan range that is refused, and the ids of one that is not
ElementRefused(e) ==
    /\ Contains(e, "-")
    /\ \/ Len(Pieces(e, "-")) # 2
       \/ Decimal(Pieces(e, "-")[1]) = 0
       \/ Decimal(Pieces(e, "-")[1]) > Decimal(Pieces(e, "-")[2])

ElementIds(e) ==
    IF Contains(e, "-")
    THEN LET min == Decimal(Pieces(e, "-")[1])
             max == Decimal(Pieces(e, "-")[2])
         IN [i \in 1..(max - min + 1) |-> min + i - 1]
    ELSE <<Decimal(e)>>

RangeRefused(r) ==
    \/ \E i \in 1..Len(r) : ~IsDigit(r[i]) /\ r[i] # "," /\ r[i] # "-"
    \/ \E k \in 1..Len(Pieces(r, ",")) : ElementRefused(Pieces(r, ",")[k])

RECURSIVE Flatten(_)
Flatten(ss) == IF ss = <<>> THEN <<>> ELSE Head(ss) \o Flatten(Tail(ss))

RangeIds(r) == Flatten([k \in 1..Len(Pieces(r, ",")) |-> ElementIds(Pieces(r, ",")[k])])

\* C24: GetVlanIds fails exactly on a string with a character that is no
\* digit, ',' or '-', or with an element that holds a '-' and is not two
\* components min-max with min # 0 and min <= max. On any other string it
\* returns the ids in the order of the string, every range expanded; an
\* element without a digit counts as 0.
C24_ParseVlanRange ==
    (nad.pc = "done" /\ nad.fn = "GetVlanIds") =>
        /\ nad.ret.err # "nil" <=> RangeRefused(nad.args[1])
        /\ nad.ret.err = "nil" => nad.ret.ids = RangeIds(nad.args[1])
        /\ nad.args[1] = Example1 => nad.ret = [ids |-> <<50, 51, 700, 701, 702>>, err |-> "nil"]
        /\ nad.args[1] = Example2 => nad.ret.err # "nil"
        /\ nad.args[1] = <<"0">> => nad.ret = [ids |-> <<0>>, err |-> "nil"]

C24_Witness ==
    /\ nad.pc = "done"
    /\ nad.fn = "GetVlanIds"
    /\ nad.args[1] = Example1
    /\ nad.ret = [ids |-> <<50, 51, 700, 701, 702>>, err |-> "nil"]

\* the set of the ids that a vlan range lists, none for a refused range
IdSet(r) == IF RangeRefused(r) THEN {} ELSE {RangeIds(r)[i] : i \in 1..Len(RangeIds(r))}

\* the vlan_trunk of a NAD
TrunkOf(n) == GetNetConf(n).netConf.VlanTrunk

\* an SR-IOV NAD in overlay mode that is eligible but for the comparison of
\* its overlays with its trunk
OverlayMode(n) ==
    /\ n.Config.valid
    /\ GetNetConf(n).netConf.Type = "sriov"
    /\ Anno(n, NodeSelectorKey) # ""
    /\ Anno(n, SriovResourceKey) # ""
    /\ TrunkOf(n) # <<>>
    /\ ~RangeRefused(TrunkOf(n))
    /\ SriovOverlaysKey \in DOMAIN n.Annotations
    /\ n.Annotations[SriovOverlaysKey].json = "list"
    /\ \A i \in 1..Len(n.Annotations[SriovOverlaysKey].overlays) :
          LET overlay == n.Annotations[SriovOverlaysKey].overlays[i]
          IN /\ DOMAIN overlay = {"extProjectName", "extNetworkName", "vlanRange"}
             /\ ~RangeRefused(overlay.vlanRange)

OverlayIdSet(n) ==
    UNION {IdSet(n.Annotations[SriovOverlaysKey].overlays[i].vlanRange) :
              i \in 1..Len(n.Annotations[SriovOverlaysKey].overlays)}

\* C25: the overlays are compared with the trunk as sets. An SR-IOV NAD in
\* overlay mode that meets every other requirement is eligible exactly when
\* the ids of its overlays' vlanRanges are the ids of its vlan_trunk, in any
\* order and listed any number of times.
C25_OverlaySets ==
    (nad.pc = "done" /\ nad.fn = "ShouldTriggerTopoAction" /\ OverlayMode(nad.args[1])) =>
        ((nad.ret.trigger /\ nad.ret.err = "nil")
            <=> OverlayIdSet(nad.args[1]) = IdSet(TrunkOf(nad.args[1])))

\* C26 as stated: whenever ShouldTriggerTopoUpdate answers UpdateAttach, the
\* ids of the new vlan_trunk include the ids of the old vlan_trunk. It is
\* stated of the NADs that both have a vlan_trunk.
C26_UpdateAttachGrows ==
    (/\ nad.pc = "done"
     /\ nad.fn = "ShouldTriggerTopoUpdate"
     /\ nad.ret.action = "UpdateAttach"
     /\ TrunkOf(nad.args[1]) # <<>>
     /\ TrunkOf(nad.args[2]) # <<>>) =>
        IdSet(TrunkOf(nad.args[1])) \subseteq IdSet(TrunkOf(nad.args[2]))

\* C26 amended: whenever ShouldTriggerTopoUpdate answers UpdateAttach for an
\* old NAD that was eligible, the ids of the new vlan_trunk include the ids
\* of the old vlan_trunk.
C26_EligibleUpdateAttachGrows ==
    (/\ nad.pc = "done"
     /\ nad.fn = "ShouldTriggerTopoUpdate"
     /\ nad.ret.action = "UpdateAttach"
     /\ ShouldTriggerTopoAction(nad.args[1]).trigger) =>
        IdSet(TrunkOf(nad.args[1])) \subseteq IdSet(TrunkOf(nad.args[2]))

C26_Witness ==
    /\ nad.pc = "done"
    /\ nad.fn = "ShouldTriggerTopoUpdate"
    /\ nad.ret.action = "UpdateAttach"
    /\ ShouldTriggerTopoAction(nad.args[1]).trigger
    /\ TrunkOf(nad.args[1]) = <<"1">>
    /\ TrunkOf(nad.args[2]) = <<"2", ",", "1">>

\* C27: when both NADs are eligible and both the vlan_trunk and the
\* nodeSelector differ, ShouldTriggerTopoUpdate returns an error and no
\* action; a vlan_trunk grown from "10,20" to "10,20,30" under the same
\* nodeSelector is an UpdateAttach.
C27_BothChangedIsError ==
    (nad.pc = "done" /\ nad.fn = "ShouldTriggerTopoUpdate") =>
        /\ (/\ ShouldTriggerTopoAction(nad.args[1]).trigger
            /\ ShouldTriggerTopoAction(nad.args[2]).trigger
            /\ TrunkOf(nad.args[1]) # TrunkOf(nad.args[2])
            /\ Anno(nad.args[1], NodeSelectorKey) # Anno(nad.args[2], NodeSelectorKey))
           => (nad.ret.err # "nil" /\ nad.ret.action = "none")
        /\ (/\ ShouldTriggerTopoAction(nad.args[1]).trigger
            /\ ShouldTriggerTopoAction(nad.args[2]).trigger
            /\ TrunkOf(nad.args[1]) = Trunk1020
            /\ TrunkOf(nad.args[2]) = Trunk102030
            /\ Anno(nad.args[1], NodeSelectorKey) = Anno(nad.args[2], NodeSelectorKey))
           => (nad.ret.err = "nil" /\ nad.ret.action = "UpdateAttach")

\* the DELETEs of a log, and what a DELETE of the log removes: a label, a
\* port that is no LAG, a LAG port, a tenant, as the server srv holds them
Deletes(l) == {i \in 1..Len(l) : l[i].method = "DELETE"}

DeletedObject(srv, e) == ObjectOf(srv[e.path], e.id)

DeleteRank(srv, e) ==
    IF e.path = "hostportlabels" THEN 1
    ELSE IF e.path = "hostports" THEN (IF DeletedObject(srv, e).isLag THEN 3 ELSE 2)
    ELSE 4

\* C31: the LAG ports last. In a resync of NewFssClient every DELETE of a
\* port of a deployment that is no LAG comes before every DELETE of a LAG
\* port of that deployment. On a first run the DELETEs of one deployment
\* are its labels, its ports that are no LAG, its LAG ports, its tenants, in
\* this order, and every deleted object belongs to a deployment of the name
\* of the cluster's that is not the current one.
C31_LagLast ==
    [][(lastOp'.op \in {"NewFssClient", "Poll"} /\ lastOp'.args = <<"resync">>) =>
          /\ \A i \in Deletes(log') : \A j \in Deletes(log') :
                (/\ i < j
                 /\ log'[i].path = "hostports"
                 /\ log'[j].path = "hostports"
                 /\ DeletedObject(server, log'[i]).deploymentId
                       = DeletedObject(server, log'[j]).deploymentId)
                => ~(DeletedObject(server, log'[i]).isLag /\ ~DeletedObject(server, log'[j]).isLag)
          /\ boot'.firstRun =>
                /\ \A i \in Deletes(log') : \A j \in Deletes(log') :
                      (/\ i < j
                       /\ DeletedObject(server, log'[i]).deploymentId
                             = DeletedObject(server, log'[j]).deploymentId)
                      => DeleteRank(server, log'[i]) <= DeleteRank(server, log'[j])
                /\ \A i \in Deletes(log') :
                      /\ log'[i].path \in {"hostportlabels", "hostports", "tenants"}
                      /\ DeletedObject(server, log'[i]).deploymentId # deployment'.id
                      /\ \E d \in server.deployments :
                            /\ d.id = DeletedObject(server, log'[i]).deploymentId
                            /\ d.name = DeploymentName]_vars

C31_Witness ==
    /\ lastOp.op \in {"NewFssClient", "Poll"}
    /\ lastOp.args = <<"resync">>
    /\ boot.firstRun
    /\ \E i \in Deletes(log) : log[i].path = "hostportlabels" /\ log[i].status = 204
    /\ Cardinality({i \in Deletes(log) : log[i].path = "hostports" /\ log[i].status = 204}) = 3
    /\ \E i \in Deletes(log) : log[i].path = "tenants" /\ log[i].status = 204

\* the calls of a log with this method on this path
Calls(l, method, path) == {i \in 1..Len(l) : l[i].method = method /\ l[i].path = path}

\* C32: the registration at start-up. NewFssClient POSTs a Plugin exactly
\* when there was no ConfigMap, or its plugin key held no id, or GET
\* plugins/{id} answered another status than 200. Unless it returned before,
\* it POSTs a Deployment exactly when it created a Plugin, or no Deployment
\* was stored, or the stored one was of another Plugin, or GET
\* deployments/{id} answered another status than 200. A resync of a first
\* run finds the database key reset to the empty mirror.
C32_Registration ==
    [][/\ lastOp'.op = "NewFssClient" =>
             /\ Calls(log', "POST", "plugins") # {}
                   <=> \/ ~configmap.exists
                       \/ configmap.plugin = NoId
                       \/ \E i \in Calls(log', "GET", "plugins") : log'[i].status \notin {200, 0}
             /\ (\A i \in Calls(log', "POST", "plugins") : log'[i].status = 201)
                /\ (\A i \in Calls(log', "GET", "plugins") : log'[i].status # 0)
                => (Calls(log', "POST", "deployments") # {}
                      <=> \/ Calls(log', "POST", "plugins") # {}
                          \/ configmap.deployment = NoDeployment
                          \/ configmap.deployment.pluginId # configmap.plugin
                          \/ \E i \in Calls(log', "GET", "deployments") :
                                log'[i].id # NoId /\ log'[i].status \notin {200, 0})
       /\ (lastOp'.op \in {"NewFssClient", "Poll"} /\ lastOp'.args = <<"resync">> /\ boot'.firstRun)
             => configmap'.database = encode(EmptyDatabase)]_vars

\* the authentication calls among the calls of a request, and the requests
AuthCalls(calls) == {i \in 1..Len(calls) : calls[i].url \in {AuthURL, refreshURL}}
ApiCalls(calls) == {i \in 1..Len(calls) : calls[i].url = rootURL}

\* C33: before every GET, POST and DELETE, when the clock is after the
\* refresh-token expiry the one authentication call is a login with username
\* and password; otherwise, when it is after the access-token expiry, it is a
\* refresh with the refresh token held; otherwise there is none. When that
\* call fails the request is not sent and its error is returned; when it
\* succeeds or there is none the request is sent, once. A refresh leaves the
\* refresh-token expiry as it was.
C33_TokenHandling ==
    [][(tokens'.requests # tokens.requests) =>
        LET calls == tokens'.calls
            auth == AuthCalls(calls)
            failed == \E i \in auth : calls[i].out # "ok"
        IN  /\ tokens.now > tokens.refreshTokenExpiry =>
                /\ auth = {1}
                /\ calls[1].url = AuthURL
                /\ calls[1].body = "password"
            /\ (tokens.now <= tokens.refreshTokenExpiry /\ tokens.now > tokens.accessTokenExpiry) =>
                /\ auth = {1}
                /\ calls[1].url = refreshURL
                /\ calls[1].body = "refresh_token"
                /\ calls[1].token = tokens.loginResponse.RefreshToken
                /\ tokens'.refreshTokenExpiry = tokens.refreshTokenExpiry
            /\ (tokens.now <= tokens.refreshTokenExpiry /\ tokens.now <= tokens.accessTokenExpiry) =>
                auth = {}
            /\ failed => (ApiCalls(calls) = {} /\ tokens'.err = calls[1].out /\ tokens'.err # "nil")
            /\ ~failed => (/\ Cardinality(ApiCalls(calls)) = 1
                           /\ calls[Len(calls)].url = rootURL
                           /\ calls[Len(calls)].bearer = tokens'.loginResponse.AccessToken)]_vars

\* a refresh succeeded and the DELETE went out after it
C33_Witness ==
    /\ tokens.requests = 2
    /\ Len(tokens.calls) = 2
    /\ tokens.calls[1].url = refreshURL
    /\ tokens.calls[2].url = rootURL
    /\ tokens.calls[2].body = "DELETE"
    /\ tokens.calls[1].out = "ok"

\* a failed login kept a request back
C33_WitnessFailed ==
    /\ Len(tokens.calls) = 1
    /\ tokens.calls[1].url = AuthURL
    /\ tokens.calls[1].out = "status"
    /\ tokens.err = "status"

\* the operations of the engine and of the facade
EngineOps ==
    {"CreateSubnetInterface", "AttachSubnetInterface", "GetSubnetInterface", "CreateHostPort",
     "AttachHostPort", "DetachHostPort", "DeleteSubnetInterface", "DetachNode"}
FacadeOps == {"Attach", "Detach"}

\* C34: no operation of the engine and neither Attach nor Detach writes the
\* ConfigMap; the database key of the ConfigMap changes in TxnDone only (and
\* in the bootstrap and the resync of a start); GetSubnetInterface leaves the
\* mirror as it was.
C34_DeferredPersistence ==
    [][/\ lastOp'.op \in EngineOps \cup FacadeOps => configmap' = configmap
       /\ configmap'.database # configmap.database =>
              lastOp'.op \in {"TxnDone", "Restart", "NewFssClient", "Poll"}
       /\ lastOp'.op = "GetSubnetInterface" => database' = database]_vars

\* an Attach changed the mirror and the ConfigMap holds the one before; a
\* GetSubnetInterface found the interface
C34_Witness ==
    /\ lastOp.op = "GetSubnetInterface"
    /\ lastOp.ret.exists
    /\ database # decode(configmap.database)
    /\ uncommitted.posted # {}

\* an Attach that reported no error at all
FullySuccessful(op) ==
    /\ op.op = "Attach"
    /\ op.err = "nil"
    /\ \A k \in DOMAIN op.ret : op.ret[k] = "nil"

\* C35: an Attach repeated with the same arguments right after a fully
\* successful Attach POSTs nothing and leaves the mirror as it was.
C35_AttachRetry ==
    [][(/\ FullySuccessful(lastOp)
        /\ lastOp'.op = "Attach"
        /\ lastOp'.args = lastOp.args)
       => (/\ \A i \in 1..Len(log') : log'[i].method # "POST"
           /\ database' = database)]_vars

\* the retry of an Attach of two vlans to a node with an 802.3ad bond
C35_Witness ==
    /\ FullySuccessful(lastOp)
    /\ lastOp.args[3] = <<1, 2>>
    /\ lastOp.args[4] = {"n1"}
    /\ log = <<>>
    /\ \E n \in DOMAIN database.hostPorts : DOMAIN database.hostPorts[n] # {}
    /\ \E l \in DOMAIN database.attachedPorts : database.attachedPorts[l] # <<>>

\* the ids a mirror records for the objects of a path
Recorded(db, path) ==
    IF path = "hostportlabels"
    THEN UNION {Values(db.hostPortLabels[x]) : x \in DOMAIN db.hostPortLabels}
    ELSE IF path = "hostports"
    THEN UNION {Values(db.hostPorts[n]) : n \in DOMAIN db.hostPorts}
    ELSE IF path = "tenants" THEN {db.tenants[w].id : w \in DOMAIN db.tenants}
    ELSE {}

\* a resync of a start that is no first run
RestartResync(op, b) == op.op \in {"NewFssClient", "Poll"} /\ op.args = <<"resync">> /\ ~b.firstRun

\* C36: the server shrink of a restart resync deletes labels, ports and
\* tenants only, each of the deployment in use, and none whose id the mirror
\* records after the mirror shrink.
C36_KnownKept ==
    [][RestartResync(lastOp', boot') =>
          \A i \in Deletes(log') :
              /\ log'[i].path \in {"hostportlabels", "hostports", "tenants"}
              /\ DeletedObject(server, log'[i]).deploymentId = deployment'.id
              /\ log'[i].id \notin Recorded(database', log'[i].path)]_vars

\* a restart resync deleted a port from the server and kept the tenant and
\* the label the mirror records
C36_Witness ==
    /\ RestartResync(lastOp, boot)
    /\ \E i \in Deletes(log) : log[i].path = "hostports" /\ log[i].status = 204
    /\ Recorded(database, "tenants") # {}
    /\ Recorded(database, "hostportlabels") # {}
    /\ \A id \in Recorded(database, "hostportlabels") : \E o \in server.hostportlabels : o.id = id

\* C37: when NewFssClient has returned the client after a resync, every
\* tenant and every subnet of the mirror is of the deployment in use.
C37_MirrorOfDeployment ==
    (/\ lastOp.op \in {"NewFssClient", "Poll"}
     /\ lastOp.args = <<"resync">>
     /\ running)
    => (/\ \A w \in DOMAIN database.tenants : database.tenants[w].deploymentId = deployment.id
        /\ \A x \in DOMAIN database.subnets : database.subnets[x].deploymentId = deployment.id)

\* the subnet ids the mirror db maps a name of a workload to although it
\* holds no such subnet, as the mirror shrink leaves them
DroppedSubnets(db, w, s) ==
    {x \in UNION {Values(db.subnetMapping[t]) : t \in DOMAIN db.subnetMapping} :
        /\ Has(db.workloadMapping, w)
        /\ Has(GetMap(db.subnetMapping, db.workloadMapping[w]), s)
        /\ db.subnetMapping[db.workloadMapping[w]][s] = x
        /\ ~Has(db.subnets, x)}

\* a restart resync has dropped from the mirror the subnet of (w, s), which
\* the server does not have
ShrunkBefore(w, s) ==
    /\ lastOp.op = "Restart"
    /\ lastOp.err = "nil"
    /\ \E x \in DroppedSubnets(database, w, s) : \A o \in server.subnets : o.id # x

\* C38: after the mirror shrink of a restart resync dropped a subnet that the
\* server does not have, CreateSubnetInterface for its workload and subnet
\* name does not panic, and when the server answers every call with 201 it
\* POSTs a subnet before the label and returns the id of the subnet it
\* POSTed.
C38_RecreateAfterShrink ==
    [][(/\ lastOp'.op = "CreateSubnetInterface"
        /\ ShrunkBefore(lastOp'.args[1], lastOp'.args[2]))
       => (/\ lastOp'.err # "panic"
           /\ (\A i \in 1..Len(log') : log'[i].status = 201) =>
                 /\ lastOp'.err = "nil"
                 /\ \E i \in Calls(log', "POST", "subnets") :
                       /\ \A j \in Calls(log', "POST", "hostportlabels") : i < j
                       /\ lastOp'.ret[1] = log'[i].id)]_vars

\* C39: the interface is removed only by a deleteVlanInterface after which
\* no NAD is left that created it and has not deleted it; while such a NAD
\* is left, deleteVlanInterface returns a positive number of users and does
\* not remove the interface.
C39_ReferenceCounting ==
    [][(vlans'.calls # vlans.calls) =>
          LET left == {c \in vlans'.created : c[2] = vlans'.vlanIfName}
          IN  /\ vlans'.linkDel => (vlans'.fn = "deleteVlanInterface" /\ left = {})
              /\ (vlans'.fn = "deleteVlanInterface" /\ left # {}) =>
                    (vlans'.ret > 0 /\ ~vlans'.linkDel)]_vars

\* C40: no lost update across the keys of the ConfigMap. The Update with
\* which setConfigMap(K, v) returns nil leaves K = v in the ConfigMap and
\* every other key as the last write before it left it, whoever wrote it.
C40_NoLostUpdate ==
    [][(write.pc = "update" /\ write'.pc = "done" /\ write'.err = "nil")
       => (/\ configmap'[write.name] = write.data
           /\ \A k \in DOMAIN configmap : k # write.name => configmap'[k] = configmap[k]
           /\ DOMAIN configmap' = DOMAIN configmap)]_vars

\* setConfigMap returned nil after a conflict with a write of another key,
\* and the ConfigMap has both values
C40_Witness ==
    /\ write.pc = "done"
    /\ write.err = "nil"
    /\ write.i > 0
    /\ write.name = "database"
    /\ configmap.database = "x"
    /\ configmap.plugin = "q"
====
